---------------------------- MODULE Spec2Model ----------------------------
(***************************************************************************)
(* Model of the interviewer-terminal shell emulator core: command parser,  *)
(* pipeline executor, virtual filesystem and line editor.                  *)
(*                                                                         *)
(* A JavaScript string is modelled as a sequence of one-character strings, *)
(* so that slicing, splitting and joining are computed as the code does.   *)
(***************************************************************************)
EXTENDS Integers, Sequences, FiniteSets, TLC

(***************************************************************************)
(* String primitives (String.prototype)                                    *)
(***************************************************************************)
\* a strict let: e is evaluated once and Body is applied to its value
Bind(e, Body(_)) == CHOOSE r \in {Body(v) : v \in {e}} : TRUE

\* the character U+001B as an element of a string
Esc == "ESC"

Min(a, b) == IF a < b THEN a ELSE b

Max(a, b) == IF a > b THEN a ELSE b

\* s.slice(from, to) with 0-based, end-exclusive, non-negative indices
Slice(s, from, to) ==
    LET f == Min(from, Len(s))
        t == Min(to, Len(s))
    IN  IF t <= f THEN <<>> ELSE SubSeq(s, f + 1, t)

\* s.slice(from)
SliceFrom(s, from) == Slice(s, from, Len(s))

StartsWith(s, p) == Len(p) <= Len(s) /\ SubSeq(s, 1, Len(p)) = p

EndsWith(s, p) == Len(p) <= Len(s) /\ SubSeq(s, Len(s) - Len(p) + 1, Len(s)) = p

\* s.indexOf(p), 0-based, -1 when absent
IndexOf(s, p) ==
    LET hits == {k \in 0..(Len(s) - Len(p)) : SubSeq(s, k + 1, k + Len(p)) = p}
    IN  IF hits = {} THEN -1 ELSE CHOOSE k \in hits : \A j \in hits : k <= j

Includes(s, p) == IndexOf(s, p) # -1

\* the characters \s matches, among those the model uses
WhiteSpace == {" ", "\t", "\n", "\r"}

RECURSIVE TrimStart(_)
TrimStart(s) ==
    IF s # <<>> /\ Head(s) \in WhiteSpace THEN TrimStart(Tail(s)) ELSE s

RECURSIVE TrimEnd(_)
TrimEnd(s) ==
    IF s # <<>> /\ s[Len(s)] \in WhiteSpace
    THEN TrimEnd(SubSeq(s, 1, Len(s) - 1)) ELSE s

\* s.trim()
Trim(s) == TrimEnd(TrimStart(s))

\* parts.join(sep)
RECURSIVE Join(_, _)
Join(parts, sep) ==
    IF parts = <<>> THEN <<>>
    ELSE IF Len(parts) = 1 THEN parts[1]
    ELSE parts[1] \o sep \o Join(Tail(parts), sep)

\* s.split(c) for a one-character separator c: empty pieces are kept
RECURSIVE SplitChar(_, _, _, _)
SplitChar(s, c, k, current) ==
    IF k > Len(s) THEN <<current>>
    ELSE IF s[k] = c THEN <<current>> \o SplitChar(s, c, k + 1, <<>>)
    ELSE SplitChar(s, c, k + 1, Append(current, s[k]))

Split(s, c) == SplitChar(s, c, 1, <<>>)

\* s.split(/\s+/): a run of whitespace is one separator, empty pieces at
\* the ends are kept
RECURSIVE SplitWsFrom(_, _, _)
SplitWsFrom(s, k, current) ==
    IF k > Len(s) THEN <<current>>
    ELSE IF s[k] \in WhiteSpace
         THEN IF k > 1 /\ s[k - 1] \in WhiteSpace
              THEN SplitWsFrom(s, k + 1, current)
              ELSE <<current>> \o SplitWsFrom(s, k + 1, <<>>)
         ELSE SplitWsFrom(s, k + 1, Append(current, s[k]))

SplitWs(s) == SplitWsFrom(s, 1, <<>>)

\* array.filter(Boolean) on an array of strings
RECURSIVE FilterNonEmpty(_)
FilterNonEmpty(parts) ==
    IF parts = <<>> THEN <<>>
    ELSE IF Head(parts) = <<>> THEN FilterNonEmpty(Tail(parts))
    ELSE <<Head(parts)>> \o FilterNonEmpty(Tail(parts))

DigitChars == <<"0", "1", "2", "3", "4", "5", "6", "7", "8", "9">>

\* Number.prototype.toString for a natural number
RECURSIVE NatToString(_)
NatToString(n) ==
    IF n < 10 THEN <<DigitChars[n + 1]>>
    ELSE NatToString(n \div 10) \o <<DigitChars[(n % 10) + 1]>>

Digits == {DigitChars[k] : k \in 1..10}

Letters ==
    {"a", "b", "c", "d", "e", "f", "g", "h", "i", "j", "k", "l", "m",
     "n", "o", "p", "q", "r", "s", "t", "u", "v", "w", "x", "y", "z",
     "A", "B", "C", "D", "E", "F", "G", "H", "I", "J", "K", "L", "M",
     "N", "O", "P", "Q", "R", "S", "T", "U", "V", "W", "X", "Y", "Z"}

\* the characters \w matches
WordChars == Letters \cup Digits \cup {"_"}

(***************************************************************************)
(* CommandParser                                                           *)
(***************************************************************************)
\* the locals of a scan over the input: tokenize and splitPipeline keep
\* the same ones (tokens / results, current, the quote and escape flags)
ScanStart ==
    [k |-> 1, results |-> <<>>, current |-> <<>>,
     inSingleQuote |-> FALSE, inDoubleQuote |-> FALSE, escaped |-> FALSE]

\* the body of tokenize's for loop at character st.k
TokenizeStep(input, st) ==
    LET char == input[st.k] IN
    IF st.escaped
    THEN [st EXCEPT !.k = @ + 1, !.current = Append(@, char), !.escaped = FALSE]
    ELSE IF char = "\\" /\ ~st.inSingleQuote
    THEN [st EXCEPT !.k = @ + 1, !.escaped = TRUE]
    ELSE IF char = "'" /\ ~st.inDoubleQuote
    THEN [st EXCEPT !.k = @ + 1, !.inSingleQuote = ~@]
    ELSE IF char = "\"" /\ ~st.inSingleQuote
    THEN [st EXCEPT !.k = @ + 1, !.inDoubleQuote = ~@]
    ELSE IF char = " " /\ ~st.inSingleQuote /\ ~st.inDoubleQuote
    THEN [st EXCEPT !.k = @ + 1,
                    !.results = IF st.current # <<>> THEN Append(@, st.current) ELSE @,
                    !.current = <<>>]
    ELSE [st EXCEPT !.k = @ + 1, !.current = Append(@, char)]

RECURSIVE TokenizeFrom(_, _)
TokenizeFrom(input, st) ==
    IF st.k > Len(input)
    THEN IF st.current # <<>> THEN Append(st.results, st.current) ELSE st.results
    ELSE TokenizeFrom(input, TokenizeStep(input, st))

tokenize(input) == TokenizeFrom(input, ScanStart)

\* results.push({type: 'command', value: current.trim()}) when non-blank
PushCommand(results, current) ==
    IF Trim(current) # <<>>
    THEN Append(results, [type |-> "command", value |-> Trim(current)])
    ELSE results

PushOperator(results, current, op) ==
    Append(PushCommand(results, current), [type |-> "operator", value |-> op])

\* splitPipeline: the same quote/escape scan, keeping quotes and
\* backslashes in the segment text, cutting at ||, &&, | and ;
\* the body of splitPipeline's for loop at character st.k
SplitPipelineStep(input, st) ==
    LET char == input[st.k]
        next == IF st.k + 1 <= Len(input) THEN input[st.k + 1] ELSE ""
    IN
    IF st.escaped
    THEN [st EXCEPT !.k = @ + 1, !.current = Append(@, char), !.escaped = FALSE]
    ELSE IF char = "\\"
    THEN [st EXCEPT !.k = @ + 1, !.current = Append(@, char), !.escaped = TRUE]
    ELSE IF char = "'" /\ ~st.inDoubleQuote
    THEN [st EXCEPT !.k = @ + 1, !.current = Append(@, char), !.inSingleQuote = ~@]
    ELSE IF char = "\"" /\ ~st.inSingleQuote
    THEN [st EXCEPT !.k = @ + 1, !.current = Append(@, char), !.inDoubleQuote = ~@]
    ELSE IF st.inSingleQuote \/ st.inDoubleQuote
    THEN [st EXCEPT !.k = @ + 1, !.current = Append(@, char)]
    ELSE IF char = "|" /\ next = "|"
    THEN [st EXCEPT !.k = @ + 2, !.current = <<>>,
                    !.results = PushOperator(@, st.current, "||")]
    ELSE IF char = "&" /\ next = "&"
    THEN [st EXCEPT !.k = @ + 2, !.current = <<>>,
                    !.results = PushOperator(@, st.current, "&&")]
    ELSE IF char = "|"
    THEN [st EXCEPT !.k = @ + 1, !.current = <<>>,
                    !.results = PushOperator(@, st.current, "|")]
    ELSE IF char = ";"
    THEN [st EXCEPT !.k = @ + 1, !.current = <<>>,
                    !.results = PushOperator(@, st.current, ";")]
    ELSE [st EXCEPT !.k = @ + 1, !.current = Append(@, char)]

RECURSIVE SplitPipelineFrom(_, _)
SplitPipelineFrom(input, st) ==
    IF st.k > Len(input)
    THEN PushCommand(st.results, st.current)
    ELSE SplitPipelineFrom(input, SplitPipelineStep(input, st))

splitPipeline(input) == SplitPipelineFrom(input, ScanStart)

\* outputRedirect?: { file, append }
NoRedirect == [present |-> FALSE, file |-> <<>>, append |-> FALSE]

Redirect(file, append) == [present |-> TRUE, file |-> file, append |-> append]

\* a flag value is `true` or a string
FlagTrue == [isTrue |-> TRUE, value |-> <<>>]

FlagValue(v) == [isTrue |-> FALSE, value |-> v]

\* flags[name] = v
SetFlag(flags, name, v) ==
    [n \in (DOMAIN flags) \cup {name} |-> IF n = name THEN v ELSE flags[n]]

\* for (const ch of flagChars) flags[ch] = true
RECURSIVE SetShortFlags(_, _)
SetShortFlags(flags, flagChars) ==
    IF flagChars = <<>> THEN flags
    ELSE SetShortFlags(SetFlag(flags, <<Head(flagChars)>>, FlagTrue), Tail(flagChars))

\* the guard of the short-flag branch as written in parseCommand
IsShortFlagToken(token) ==
    StartsWith(token, <<"-">>) /\ Len(token) > 1 /\ ~StartsWith(token, <<"-">>)

\* the while loop of parseCommand over tokens[1..]; i is 0-based as in the code
RECURSIVE ParseTokens(_, _, _)
ParseTokens(tokens, i, acc) ==
    IF ~(i < Len(tokens)) THEN acc
    ELSE LET token == tokens[i + 1]
             hasNext == i + 1 < Len(tokens)
             nextTok == IF hasNext THEN tokens[i + 2] ELSE <<>>
             eqIndex == IndexOf(token, <<"=">>)
         IN
         IF token = <<">", ">">> /\ hasNext
         THEN ParseTokens(tokens, i + 2,
                          [acc EXCEPT !.outputRedirect = Redirect(nextTok, TRUE)])
         ELSE IF token = <<">">> /\ hasNext
         THEN ParseTokens(tokens, i + 2,
                          [acc EXCEPT !.outputRedirect = Redirect(nextTok, FALSE)])
         ELSE IF StartsWith(token, <<">", ">">>)
         THEN ParseTokens(tokens, i + 1,
                          [acc EXCEPT !.outputRedirect = Redirect(SliceFrom(token, 2), TRUE)])
         ELSE IF StartsWith(token, <<">">>) /\ Len(token) > 1
         THEN ParseTokens(tokens, i + 1,
                          [acc EXCEPT !.outputRedirect = Redirect(SliceFrom(token, 1), FALSE)])
         ELSE IF token = <<"<">> /\ hasNext
         THEN ParseTokens(tokens, i + 2,
                          [acc EXCEPT !.inputRedirect = [present |-> TRUE, file |-> nextTok]])
         ELSE IF StartsWith(token, <<"-", "-">>)
         THEN IF eqIndex # -1
              THEN ParseTokens(tokens, i + 1,
                       [acc EXCEPT !.flags = SetFlag(@, Slice(token, 2, eqIndex),
                                                     FlagValue(SliceFrom(token, eqIndex + 1)))])
              ELSE IF hasNext /\ ~StartsWith(nextTok, <<"-">>)
              THEN ParseTokens(tokens, i + 2,
                       [acc EXCEPT !.flags = SetFlag(@, SliceFrom(token, 2), FlagValue(nextTok))])
              ELSE ParseTokens(tokens, i + 1,
                       [acc EXCEPT !.flags = SetFlag(@, SliceFrom(token, 2), FlagTrue)])
         ELSE IF IsShortFlagToken(token)
         THEN ParseTokens(tokens, i + 1,
                          [acc EXCEPT !.flags = SetShortFlags(@, SliceFrom(token, 1))])
         ELSE ParseTokens(tokens, i + 1, [acc EXCEPT !.args = Append(@, token)])

EmptyFlags == [n \in {} |-> FlagTrue]

EmptyCommand ==
    [command |-> <<>>, args |-> <<>>, rawArgs |-> <<>>, flags |-> EmptyFlags,
     outputRedirect |-> NoRedirect,
     inputRedirect |-> [present |-> FALSE, file |-> <<>>]]

parseCommand(input) ==
    Bind(tokenize(input), LAMBDA tokens :
        IF Len(tokens) = 0 THEN EmptyCommand
        ELSE ParseTokens(tokens, 1,
                         [EmptyCommand EXCEPT !.command = tokens[1],
                                              !.rawArgs = Join(Tail(tokens), <<" ">>)]))

RECURSIVE ParseSegments(_, _)
ParseSegments(segments, acc) ==
    IF segments = <<>> THEN acc
    ELSE LET seg == Head(segments) IN
         IF seg.type = "operator"
         THEN ParseSegments(Tail(segments),
                            [acc EXCEPT !.operators = Append(@, seg.value)])
         ELSE ParseSegments(Tail(segments),
                            [acc EXCEPT !.commands = Append(@, parseCommand(seg.value))])

\* parse: raw input -> Pipeline {commands, operators}
parse(input) ==
    ParseSegments(splitPipeline(input), [commands |-> <<>>, operators |-> <<>>])

(***************************************************************************)
(* VirtualFileSystem                                                       *)
(*                                                                         *)
(* The tree of FSNode objects is a function from the location of a node    *)
(* (the sequence of child names leading to it from the root) to the node;  *)
(* the root is at the empty sequence.                                      *)
(***************************************************************************)
\* the value of an optional field that is not set; no string equals it
Undefined == <<"undefined">>

\* a string that is set and not empty
TruthyString(v) == v # Undefined /\ v # <<>>

\* v ?? ''
OrEmpty(v) == IF v = Undefined THEN <<>> ELSE v

\* the file node writeFile creates
FileNode(content) ==
    [type |-> "file", content |-> content, target |-> Undefined,
     permissions |-> <<"-", "r", "w", "-", "r", "-", "-", "r", "-", "-">>]

\* the directory node the constructor and mkdir create
DirNode ==
    [type |-> "directory", content |-> Undefined, target |-> Undefined,
     permissions |-> <<"d", "r", "w", "x", "r", "-", "x", "r", "-", "x">>]

\* the nodes _loadChildren creates from entries that give no permissions
LoadedFile(content) ==
    [type |-> "file", content |-> content, target |-> Undefined,
     permissions |-> Undefined]

LoadedDir ==
    [type |-> "directory", content |-> Undefined, target |-> Undefined,
     permissions |-> Undefined]

SymlinkNode(target) ==
    [type |-> "symlink", content |-> Undefined, target |-> target,
     permissions |-> Undefined]

\* new VirtualFileSystem(): a root directory without children
EmptyTree == [p \in {<<>>} |-> DirNode]

\* parent.children.set(name, node)
SetNode(tree, loc, node) ==
    [p \in (DOMAIN tree) \cup {loc} |-> IF p = loc THEN node ELSE tree[p]]

\* the key under which Map.set files a child whose name is `undefined`
\* (parts.pop() on an empty array); no path component equals it
UndefinedName == <<"undefined">>

\* _resolveParts: '.' is skipped, '..' pops (a no-op on the empty array)
RECURSIVE ResolveInto(_, _)
ResolveInto(resolved, inputParts) ==
    IF inputParts = <<>> THEN resolved
    ELSE LET part == Head(inputParts) IN
         IF part = <<".">> THEN ResolveInto(resolved, Tail(inputParts))
         ELSE IF part = <<".", ".">>
         THEN ResolveInto(IF resolved = <<>> THEN <<>>
                          ELSE SubSeq(resolved, 1, Len(resolved) - 1),
                          Tail(inputParts))
         ELSE ResolveInto(Append(resolved, part), Tail(inputParts))

resolveParts(path, cwd) ==
    LET isAbsolute == StartsWith(path, <<"/">>)
        baseParts  == IF isAbsolute THEN <<>> ELSE FilterNonEmpty(Split(cwd, "/"))
        inputParts == FilterNonEmpty(Split(path, "/"))
    IN  ResolveInto(baseParts, inputParts)

\* '/' + parts.join('/')
PathString(parts) == <<"/">> \o Join(parts, <<"/">>)

\* VirtualFileSystem.resolvePath
fsResolvePath(path, cwd) == PathString(resolveParts(path, cwd))

NotFound == [found |-> FALSE, at |-> <<>>]

Found(loc) == [found |-> TRUE, at |-> loc]

\* the symlink hop cap of _walk
MaxSymlinkDepth == 20

\* _walk(parts, followSymlinks = true, depth): the result is the location
\* of the node reached
RECURSIVE Walk(_, _, _)
RECURSIVE WalkFrom(_, _, _, _, _)
WalkFrom(tree, parts, i, current, depth) ==
    IF ~(i < Len(parts)) THEN Found(current)
    ELSE IF tree[current].type # "directory" THEN NotFound
    ELSE LET child == Append(current, parts[i + 1]) IN
         IF child \notin DOMAIN tree THEN NotFound
         ELSE IF tree[child].type = "symlink" /\ TruthyString(tree[child].target)
         THEN LET targetParts == resolveParts(tree[child].target,
                                              PathString(SubSeq(parts, 1, i)))
                  targetNode  == Walk(tree, targetParts, depth + 1)
              IN  IF ~targetNode.found THEN NotFound
                  ELSE WalkFrom(tree, parts, i + 1, targetNode.at, depth)
         ELSE WalkFrom(tree, parts, i + 1, child, depth)

\* _walk with a cap of one hop more
WalkOneHopMore(tree, parts, depth) ==
    IF depth > MaxSymlinkDepth + 1 THEN NotFound
    ELSE WalkFrom(tree, parts, 0, <<>>, depth)

Walk(tree, parts, depth) ==
    IF depth > MaxSymlinkDepth THEN NotFound
    ELSE WalkFrom(tree, parts, 0, <<>>, depth)

\* resolve(path, cwd)
resolve(tree, path, cwd) == Walk(tree, resolveParts(path, cwd), 0)

NullContent == [isNull |-> TRUE, text |-> <<>>]

Content(text) == [isNull |-> FALSE, text |-> text]

\* readFile(path, cwd): string | null
readFile(tree, path, cwd) ==
    Bind(resolve(tree, path, cwd), LAMBDA node :
        IF ~node.found \/ tree[node.at].type # "file" THEN NullContent
        ELSE Content(OrEmpty(tree[node.at].content)))

\* writeFile(path, content, cwd): [ok, tree]
writeFile(tree, path, content, cwd) ==
    Bind(resolveParts(path, cwd), LAMBDA parts :
        LET fileName == IF parts = <<>> THEN UndefinedName ELSE parts[Len(parts)]
            rest     == IF parts = <<>> THEN <<>> ELSE SubSeq(parts, 1, Len(parts) - 1)
        IN  Bind(resolve(tree, PathString(rest), <<"/">>), LAMBDA parent :
                IF ~parent.found \/ tree[parent.at].type # "directory"
                THEN [ok |-> FALSE, tree |-> tree]
                ELSE IF /\ Append(parent.at, fileName) \in DOMAIN tree
                        /\ tree[Append(parent.at, fileName)].type = "directory"
                THEN [ok |-> FALSE, tree |-> tree]
                ELSE [ok |-> TRUE,
                      tree |-> SetNode(tree, Append(parent.at, fileName),
                                       FileNode(content))]))

\* appendFile(path, content, cwd): [ok, tree]
appendFile(tree, path, content, cwd) ==
    Bind(resolve(tree, path, cwd), LAMBDA node :
        IF node.found /\ tree[node.at].type = "file"
        THEN [ok |-> TRUE,
              tree |-> SetNode(tree, node.at,
                               [tree[node.at] EXCEPT
                                    !.content = OrEmpty(@) \o content])]
        ELSE writeFile(tree, path, content, cwd))

exists(tree, path, cwd) == resolve(tree, path, cwd).found

isDirectory(tree, path, cwd) ==
    Bind(resolve(tree, path, cwd), LAMBDA node :
        node.found /\ tree[node.at].type = "directory")

\* new RegExp(pattern, 'g') throws a SyntaxError: of the patterns of this
\* model, those with a ( that is not closed
RegExpRaises(pattern) ==
    Cardinality({k \in 1..Len(pattern) : pattern[k] = "("})
        # Cardinality({k \in 1..Len(pattern) : pattern[k] = ")"})

\* _grepFile on a file with content: the lines regex.test finds; a pattern
\* of this model that is a regular expression is a run of word characters,
\* found where it occurs
GrepFile(content, filePath, pattern) ==
    Bind(Split(content, "\n"), LAMBDA lines :
        SelectSeq([i \in 1..Len(lines) |->
                      [file |-> filePath, line |-> i, content |-> lines[i]]],
                  LAMBDA r : Includes(r.content, pattern)))

\* grep(pattern, path, cwd, recursive) with recursive = false: the lines
\* found, or the exception of new RegExp
grep(tree, pattern, path, cwd) ==
    Bind(resolve(tree, path, cwd), LAMBDA node :
        IF ~node.found \/ tree[node.at].type # "file"
           \/ ~TruthyString(tree[node.at].content)
        THEN [raised |-> FALSE, results |-> <<>>]
        ELSE IF RegExpRaises(pattern) THEN [raised |-> TRUE, results |-> <<>>]
        ELSE [raised |-> FALSE,
              results |-> GrepFile(tree[node.at].content, fsResolvePath(path, cwd),
                                   pattern)])

\* the locations at or below loc
Subtree(tree, loc) ==
    {p \in DOMAIN tree : Len(p) >= Len(loc) /\ SubSeq(p, 1, Len(loc)) = loc}

\* parent.children.delete(fileName)
DeleteNode(tree, loc) ==
    [p \in (DOMAIN tree) \ Subtree(tree, loc) |-> tree[p]]

\* the for loop of the recursive branch of mkdir, from part i on (0-based);
\* children are looked up without following symlinks
RECURSIVE MkdirFrom(_, _, _, _)
MkdirFrom(tree, parts, i, current) ==
    IF ~(i < Len(parts)) THEN [ok |-> TRUE, tree |-> tree]
    ELSE IF tree[current].type # "directory" THEN [ok |-> FALSE, tree |-> tree]
    ELSE Bind(Append(current, parts[i + 1]), LAMBDA child :
             IF child \notin DOMAIN tree
             THEN MkdirFrom(SetNode(tree, child, DirNode), parts, i + 1, child)
             ELSE IF tree[child].type # "directory"
             THEN [ok |-> FALSE, tree |-> tree]
             ELSE MkdirFrom(tree, parts, i + 1, child))

\* mkdir(path, cwd, recursive): [ok, tree]
mkdir(tree, path, cwd, recursive) ==
    Bind(resolveParts(path, cwd), LAMBDA parts :
        IF recursive THEN MkdirFrom(tree, parts, 0, <<>>)
        ELSE LET dirName == IF parts = <<>> THEN UndefinedName ELSE parts[Len(parts)]
                 rest    == IF parts = <<>> THEN <<>> ELSE SubSeq(parts, 1, Len(parts) - 1)
             IN  Bind(resolve(tree, PathString(rest), <<"/">>), LAMBDA parent :
                     IF ~parent.found \/ tree[parent.at].type # "directory"
                     THEN [ok |-> FALSE, tree |-> tree]
                     ELSE IF Append(parent.at, dirName) \in DOMAIN tree
                     THEN [ok |-> FALSE, tree |-> tree]
                     ELSE [ok |-> TRUE,
                           tree |-> SetNode(tree, Append(parent.at, dirName), DirNode)]))

\* rm that removes a directory also when recursive is false
rmAnyEntry(tree, path, cwd, recursive) ==
    Bind(resolveParts(path, cwd), LAMBDA parts :
        IF Len(parts) = 0 THEN [ok |-> FALSE, tree |-> tree]
        ELSE Bind(resolve(tree, PathString(SubSeq(parts, 1, Len(parts) - 1)), <<"/">>),
                  LAMBDA parent :
                     IF ~parent.found \/ tree[parent.at].type # "directory"
                     THEN [ok |-> FALSE, tree |-> tree]
                     ELSE Bind(Append(parent.at, parts[Len(parts)]), LAMBDA target :
                              IF target \notin DOMAIN tree
                              THEN [ok |-> FALSE, tree |-> tree]
                              ELSE [ok |-> TRUE, tree |-> DeleteNode(tree, target)])))

\* rm(path, cwd, recursive): [ok, tree]
rm(tree, path, cwd, recursive) ==
    Bind(resolveParts(path, cwd), LAMBDA parts :
        IF Len(parts) = 0 THEN [ok |-> FALSE, tree |-> tree]
        ELSE Bind(resolve(tree, PathString(SubSeq(parts, 1, Len(parts) - 1)), <<"/">>),
                  LAMBDA parent :
                     IF ~parent.found \/ tree[parent.at].type # "directory"
                     THEN [ok |-> FALSE, tree |-> tree]
                     ELSE Bind(Append(parent.at, parts[Len(parts)]), LAMBDA target :
                              IF target \notin DOMAIN tree
                              THEN [ok |-> FALSE, tree |-> tree]
                              ELSE IF tree[target].type = "directory" /\ ~recursive
                              THEN [ok |-> FALSE, tree |-> tree]
                              ELSE [ok |-> TRUE, tree |-> DeleteNode(tree, target)])))

\* the names of the children of the directory at loc
ChildNames(tree, loc) ==
    {p[Len(p)] : p \in {q \in DOMAIN tree : Len(q) = Len(loc) + 1
                                            /\ SubSeq(q, 1, Len(loc)) = loc}}

\* the property name under which json.children[name] = ... files a child:
\* the key `undefined` becomes the string 'undefined'
JsonKey(name) == IF name = UndefinedName THEN <<"u", "n", "d", "e", "f", "i", "n", "e", "d">> ELSE name

\* assigning to the property __proto__ of an object literal sets its
\* prototype and creates no own property
ProtoKey == <<"_", "_", "p", "r", "o", "t", "o", "_", "_">>

\* the own properties of json.children after the for loop of _nodeToJSON
\* over the children of loc, as a map from property name to child key;
\* of two children filed under one property name the named one is kept
JsonChildren(tree, loc) ==
    LET keys == {JsonKey(n) : n \in ChildNames(tree, loc)} \ {ProtoKey}
    IN  [k \in keys |-> IF k \in ChildNames(tree, loc) THEN k ELSE UndefinedName]

\* _nodeToJSON(node) for the node at loc
RECURSIVE nodeToJSON(_, _)
nodeToJSON(tree, loc) ==
    LET node == tree[loc] IN
    [type        |-> node.type,
     content     |-> node.content,
     target      |-> IF TruthyString(node.target) THEN node.target ELSE Undefined,
     permissions |-> IF TruthyString(node.permissions) THEN node.permissions
                     ELSE Undefined,
     children    |-> IF node.type = "directory"
                     THEN [present |-> TRUE,
                           entries |-> [k \in DOMAIN JsonChildren(tree, loc) |->
                                           nodeToJSON(tree,
                                               Append(loc, JsonChildren(tree, loc)[k]))]]
                     ELSE [present |-> FALSE, entries |-> <<>>]]

\* toJSON()
toJSON(tree) == nodeToJSON(tree, <<>>)

\* the nodes _jsonToNode(json) creates, each with its location below loc
RECURSIVE JsonNodes(_, _)
JsonNodes(json, loc) ==
    {<<loc, [type |-> json.type, content |-> json.content, target |-> json.target,
             permissions |-> json.permissions]>>}
        \cup (IF json.children.present
              THEN UNION {JsonNodes(json.children.entries[k], Append(loc, k)) :
                              k \in DOMAIN json.children.entries}
              ELSE {})

\* fromJSON(json): the tree whose root is _jsonToNode(json)
fromJSON(json) ==
    Bind(JsonNodes(json, <<>>), LAMBDA nodes :
        [p \in {n[1] : n \in nodes} |-> (CHOOSE n \in nodes : n[1] = p)[2]])

(***************************************************************************)
(* CommandContext                                                          *)
(***************************************************************************)
HomeVar == <<"H", "O", "M", "E">>

\* the env the constructor installs
InitialEnv ==
    LET names == {<<"H", "O", "M", "E">>, <<"U", "S", "E", "R">>, <<"P", "A", "T", "H">>, <<"S", "H", "E", "L", "L">>, <<"T", "E", "R", "M">>, <<"N", "O", "D", "E", "_", "E", "N", "V">>, <<"P", "W", "D">>} IN
    [n \in names |->
        CASE n = <<"H", "O", "M", "E">> -> <<"/", "h", "o", "m", "e", "/", "c", "a", "n", "d", "i", "d", "a", "t", "e">>
          [] n = <<"U", "S", "E", "R">> -> <<"c", "a", "n", "d", "i", "d", "a", "t", "e">>
          [] n = <<"P", "A", "T", "H">> -> <<"/", "u", "s", "r", "/", "l", "o", "c", "a", "l", "/", "b", "i", "n", ":", "/", "u", "s", "r", "/", "b", "i", "n", ":", "/", "b", "i", "n">>
          [] n = <<"S", "H", "E", "L", "L">> -> <<"/", "b", "i", "n", "/", "b", "a", "s", "h">>
          [] n = <<"T", "E", "R", "M">> -> <<"x", "t", "e", "r", "m", "-", "2", "5", "6", "c", "o", "l", "o", "r">>
          [] n = <<"N", "O", "D", "E", "_", "E", "N", "V">> -> <<"d", "e", "v", "e", "l", "o", "p", "m", "e", "n", "t">>
          [] n = <<"P", "W", "D">> -> <<"/", "o", "p", "t", "/", "f", "l", "e", "e", "t", "c", "o", "r", "e">>]

\* new CommandContext(fs)
InitialContext == [cwd |-> <<"/", "o", "p", "t", "/", "f", "l", "e", "e", "t", "c", "o", "r", "e">>, env |-> InitialEnv, exitCode |-> 0]

\* env[name] || ''
EnvGet(env, name) == IF name \in DOMAIN env THEN env[name] ELSE <<>>

\* ctx.env[key] = value
EnvSet(env, key, value) ==
    [n \in (DOMAIN env) \cup {key} |-> IF n = key THEN value ELSE env[n]]

\* length of the run of \w characters of s that starts at position k
RECURSIVE WordRunLen(_, _)
WordRunLen(s, k) ==
    IF k <= Len(s) /\ s[k] \in WordChars THEN 1 + WordRunLen(s, k + 1) ELSE 0

\* s.replace(/\$(\w+)/g, (_, name) => env[name] || '')
RECURSIVE ExpandPlainFrom(_, _, _)
ExpandPlainFrom(s, k, env) ==
    IF k > Len(s) THEN <<>>
    ELSE LET run == WordRunLen(s, k + 1) IN
         IF s[k] = "$" /\ run > 0
         THEN EnvGet(env, SubSeq(s, k + 1, k + run)) \o ExpandPlainFrom(s, k + 1 + run, env)
         ELSE <<s[k]>> \o ExpandPlainFrom(s, k + 1, env)

\* s.replace(/\$\{(\w+)\}/g, (_, name) => env[name] || '')
RECURSIVE ExpandBracedFrom(_, _, _)
ExpandBracedFrom(s, k, env) ==
    IF k > Len(s) THEN <<>>
    ELSE LET run == WordRunLen(s, k + 2) IN
         IF /\ s[k] = "$"
            /\ k + 1 <= Len(s) /\ s[k + 1] = "{"
            /\ run > 0
            /\ k + 2 + run <= Len(s) /\ s[k + 2 + run] = "}"
         THEN EnvGet(env, SubSeq(s, k + 2, k + 1 + run)) \o ExpandBracedFrom(s, k + 3 + run, env)
         ELSE <<s[k]>> \o ExpandBracedFrom(s, k + 1, env)

\* the two replace calls shared by resolvePath and echo
ExpandVars(s, env) == ExpandBracedFrom(ExpandPlainFrom(s, 1, env), 1, env)

\* CommandContext.resolvePath
ctxResolvePath(c, tree, path) ==
    LET home == IF StartsWith(path, <<"~">>)
                THEN EnvGet(c.env, HomeVar) \o SliceFrom(path, 1)
                ELSE path
    IN  fsResolvePath(ExpandVars(home, c.env), c.cwd)

(***************************************************************************)
(* CommandRegistry and command handlers                                    *)
(***************************************************************************)
\* every name given to registry.register by the register*Commands functions
RegisteredHandlers ==
    {<<"p", "w", "d">>, <<"c", "d">>, <<"l", "s">>, <<"c", "a", "t">>, <<"m", "k", "d", "i", "r">>, <<"t", "o", "u", "c", "h">>, <<"r", "m">>, <<"c", "p">>, <<"m", "v">>, <<"f", "i", "n", "d">>,
     <<"g", "r", "e", "p">>, <<"h", "e", "a", "d">>, <<"t", "a", "i", "l">>, <<"w", "c">>, <<"t", "r", "e", "e">>,
     <<"e", "c", "h", "o">>, <<"e", "n", "v">>, <<"e", "x", "p", "o", "r", "t">>, <<"c", "l", "e", "a", "r">>, <<"h", "i", "s", "t", "o", "r", "y">>, <<"w", "h", "o", "a", "m", "i">>, <<"h", "o", "s", "t", "n", "a", "m", "e">>,
     <<"d", "a", "t", "e">>, <<"u", "n", "a", "m", "e">>, <<"w", "h", "i", "c", "h">>, <<"m", "a", "n">>, <<"h", "e", "l", "p">>, <<"t", "r", "u", "e">>, <<"f", "a", "l", "s", "e">>, <<"e", "x", "i", "t">>,
     <<"s", "o", "r", "t">>, <<"u", "n", "i", "q">>, <<"x", "a", "r", "g", "s">>,
     <<"d", "o", "c", "k", "e", "r">>, <<"d", "o", "c", "k", "e", "r", "-", "c", "o", "m", "p", "o", "s", "e">>, <<"g", "i", "t">>, <<"n", "o", "d", "e">>, <<"n", "p", "m">>, <<"n", "p", "x">>,
     <<"p", "y", "t", "h", "o", "n">>, <<"p", "y", "t", "h", "o", "n", "3">>, <<"p", "i", "p">>, <<"p", "i", "p", "3">>,
     <<"c", "u", "r", "l">>, <<"w", "g", "e", "t">>, <<"p", "i", "n", "g">>, <<"n", "e", "t", "s", "t", "a", "t">>, <<"s", "s">>,
     <<"s", "t", "a", "t", "u", "s">>, <<"h", "i", "n", "t">>, <<"s", "u", "b", "m", "i", "t">>, <<"n", "e", "x", "t", "-", "l", "e", "v", "e", "l">>}

\* registry.registerAlias('ll', 'ls')
Aliases == [a \in {<<"l", "l">>} |-> <<"l", "s">>]

\* the handlers whose bodies are modelled below
ModelledHandlers == {<<"e", "c", "h", "o">>, <<"c", "a", "t">>, <<"w", "c">>, <<"t", "r", "u", "e">>, <<"f", "a", "l", "s", "e">>, <<"p", "w", "d">>, <<"m", "k", "d", "i", "r">>, <<"g", "r", "e", "p">>}

\* this.aliases.get(name) || name
ResolveAlias(name) == IF name \in DOMAIN Aliases THEN Aliases[name] ELSE name

\* registry.has(name)
registryHas(name) == ResolveAlias(name) \in RegisteredHandlers

NoStdin == [present |-> FALSE, text |-> <<>>]

Stdin(text) == [present |-> TRUE, text |-> text]

\* a JavaScript truthiness test on an optional string
Truthy(stdin) == stdin.present /\ stdin.text # <<>>

\* cmd.flags[name] === true
FlagIsTrue(flags, name) == name \in DOMAIN flags /\ flags[name].isTrue

\* cmd.flags[name] used as a condition
FlagTruthy(flags, name) ==
    name \in DOMAIN flags /\ (flags[name].isTrue \/ flags[name].value # <<>>)

Result(output, exitCode) == [output |-> output, exitCode |-> exitCode]

\* what a handler leaves behind: its result and the context and tree
Outcome(output, exitCode, c, tree) ==
    [output |-> output, exitCode |-> exitCode, ctx |-> c, fs |-> tree]

\* s.replace(/pat/g, rep) for a literal pattern
RECURSIVE ReplaceAllFrom(_, _, _, _)
ReplaceAllFrom(s, k, pat, rep) ==
    IF k > Len(s) THEN <<>>
    ELSE IF k + Len(pat) - 1 <= Len(s) /\ SubSeq(s, k, k + Len(pat) - 1) = pat
    THEN rep \o ReplaceAllFrom(s, k + Len(pat), pat, rep)
    ELSE <<s[k]>> \o ReplaceAllFrom(s, k + 1, pat, rep)

ReplaceAll(s, pat, rep) == ReplaceAllFrom(s, 1, pat, rep)

handleEcho(cmd, c, tree) ==
    Bind(ExpandVars(Join(cmd.args, <<" ">>), c.env), LAMBDA expanded :
        Outcome(IF FlagIsTrue(cmd.flags, <<"e">>)
                THEN ReplaceAll(ReplaceAll(ReplaceAll(expanded,
                         <<"\\", "n">>, <<"\n">>),
                         <<"\\", "t">>, <<"\t">>),
                         <<"\\", "\\">>, <<"\\">>)
                ELSE expanded,
                0, c, tree))

\* the for loop of handleCat over cmd.args, from argument k on
RECURSIVE CatArgs(_, _, _, _, _)
CatArgs(cmd, c, tree, k, outputs) ==
    IF k > Len(cmd.args) THEN Outcome(outputs, 0, c, tree)
    ELSE Bind(ctxResolvePath(c, tree, cmd.args[k]), LAMBDA resolvedPath :
         Bind(readFile(tree, resolvedPath, <<"/">>), LAMBDA content :
             IF content.isNull
             THEN IF isDirectory(tree, resolvedPath, <<"/">>)
                  THEN Outcome(<<"c", "a", "t", ":", " ">> \o cmd.args[k] \o <<":", " ", "I", "s", " ", "a", " ", "d", "i", "r", "e", "c", "t", "o", "r", "y">>, 1, c, tree)
                  ELSE Outcome(<<"c", "a", "t", ":", " ">> \o cmd.args[k] \o <<":", " ", "N", "o", " ", "s", "u", "c", "h", " ", "f", "i", "l", "e", " ", "o", "r", " ", "d", "i", "r", "e", "c", "t", "o", "r", "y">>,
                               1, c, tree)
             ELSE CatArgs(cmd, c, tree, k + 1, outputs \o content.text)))

handleCat(cmd, c, tree, stdin) ==
    IF Len(cmd.args) = 0
    THEN Outcome(IF Truthy(stdin) THEN stdin.text ELSE <<>>, 0, c, tree)
    ELSE CatArgs(cmd, c, tree, 1, <<>>)

\* getText of handleWc: the text to count and the name to print, or null
WcText(cmd, c, tree, stdin) ==
    IF Len(cmd.args) = 0 /\ Truthy(stdin)
    THEN [isNull |-> FALSE, text |-> stdin.text, name |-> <<>>]
    ELSE IF Len(cmd.args) = 0
    THEN [isNull |-> TRUE, text |-> <<>>, name |-> <<>>]
    ELSE Bind(readFile(tree, ctxResolvePath(c, tree, cmd.args[1]), <<"/">>), LAMBDA content :
         IF content.isNull
         THEN [isNull |-> TRUE, text |-> <<>>, name |-> <<>>]
         ELSE [isNull |-> FALSE, text |-> content.text, name |-> cmd.args[1]])

\* lineCount, wordCount and charCount of handleWc
WcCounts(text) ==
    [lines |-> Len(Split(text, "\n")) - (IF EndsWith(text, <<"\n">>) THEN 1 ELSE 0),
     words |-> Len(FilterNonEmpty(SplitWs(text))),
     chars |-> Len(text)]

handleWc(cmd, c, tree, stdin) ==
    Bind(WcText(cmd, c, tree, stdin), LAMBDA got :
        IF got.isNull
        THEN Outcome(IF Len(cmd.args) > 0
                     THEN <<"w", "c", ":", " ">> \o cmd.args[1] \o <<":", " ", "N", "o", " ", "s", "u", "c", "h", " ", "f", "i", "l", "e", " ", "o", "r", " ", "d", "i", "r", "e", "c", "t", "o", "r", "y">>
                     ELSE <<>>, 1, c, tree)
        ELSE Bind(WcCounts(got.text), LAMBDA n :
             IF FlagTruthy(cmd.flags, <<"l">>)
             THEN Outcome(Trim(NatToString(n.lines) \o <<" ">> \o got.name), 0, c, tree)
             ELSE IF FlagTruthy(cmd.flags, <<"w">>)
             THEN Outcome(Trim(NatToString(n.words) \o <<" ">> \o got.name), 0, c, tree)
             ELSE IF FlagTruthy(cmd.flags, <<"c">>)
             THEN Outcome(Trim(NatToString(n.chars) \o <<" ">> \o got.name), 0, c, tree)
             ELSE Outcome(Trim(<<" ", " ">> \o NatToString(n.lines) \o <<" ", " ">>
                               \o NatToString(n.words) \o <<" ">>
                               \o NatToString(n.chars) \o <<" ">> \o got.name),
                          0, c, tree)))

handlePwd(cmd, c, tree) == Outcome(c.cwd, 0, c, tree)

\* the for loop of handleMkdir over cmd.args, from argument k on
RECURSIVE MkdirArgs(_, _, _, _, _)
MkdirArgs(cmd, c, tree, k, recursive) ==
    IF k > Len(cmd.args) THEN Outcome(<<>>, 0, c, tree)
    ELSE Bind(ctxResolvePath(c, tree, cmd.args[k]), LAMBDA resolvedPath :
         Bind(mkdir(tree, resolvedPath, <<"/">>, recursive), LAMBDA made :
             IF ~made.ok
             THEN IF exists(made.tree, resolvedPath, <<"/">>)
                  THEN Outcome(<<"m", "k", "d", "i", "r", ":", " ", "c", "a", "n", "n", "o", "t", " ", "c", "r", "e", "a", "t", "e", " ", "d", "i", "r", "e", "c", "t", "o", "r", "y", " ", "'">> \o cmd.args[k]
                                   \o <<"'", ":", " ", "F", "i", "l", "e", " ", "e", "x", "i", "s", "t", "s">>, 1, c, made.tree)
                  ELSE Outcome(<<"m", "k", "d", "i", "r", ":", " ", "c", "a", "n", "n", "o", "t", " ", "c", "r", "e", "a", "t", "e", " ", "d", "i", "r", "e", "c", "t", "o", "r", "y", " ", "'">> \o cmd.args[k]
                                   \o <<"'", ":", " ", "N", "o", " ", "s", "u", "c", "h", " ", "f", "i", "l", "e", " ", "o", "r", " ", "d", "i", "r", "e", "c", "t", "o", "r", "y">>, 1, c, made.tree)
             ELSE MkdirArgs(cmd, c, made.tree, k + 1, recursive)))

handleMkdir(cmd, c, tree) ==
    IF Len(cmd.args) = 0 THEN Outcome(<<"m", "k", "d", "i", "r", ":", " ", "m", "i", "s", "s", "i", "n", "g", " ", "o", "p", "e", "r", "a", "n", "d">>, 1, c, tree)
    ELSE MkdirArgs(cmd, c, tree, 1, FlagIsTrue(cmd.flags, <<"p">>))

\* a handler threw: the context and the tree it leaves
Raised(c, tree) == [raised |-> TRUE, ctx |-> c, fs |-> tree]

HasRaised(h) == "raised" \in DOMAIN h

\* the for loop of handleGrep over the files, from the k-th on; the lines
\* of this model set neither r nor R, and grep is called with recursive
\* false
RECURSIVE GrepArgs(_, _, _, _, _, _)
GrepArgs(c, tree, pattern, files, k, allResults) ==
    IF k > Len(files)
    THEN Outcome(Join(allResults, <<"\n">>), IF Len(allResults) > 0 THEN 0 ELSE 1, c, tree)
    ELSE Bind(grep(tree, pattern, ctxResolvePath(c, tree, files[k]), <<"/">>), LAMBDA found :
         IF found.raised THEN Raised(c, tree)
         ELSE GrepArgs(c, tree, pattern, files, k + 1,
                       allResults \o
                       [i \in 1..Len(found.results) |->
                           IF Len(files) > 1
                           THEN <<Esc, "[", "3", "5", "m">> \o found.results[i].file
                                    \o <<Esc, "[", "0", "m", ":", Esc, "[", "3", "2", "m">>
                                    \o NatToString(found.results[i].line)
                                    \o <<Esc, "[", "0", "m", ":">>
                                    \o found.results[i].content
                           ELSE found.results[i].content]))

handleGrep(cmd, c, tree) ==
    IF Len(cmd.args) < 2 /\ ~(FlagIsTrue(cmd.flags, <<"r">>) \/ FlagIsTrue(cmd.flags, <<"R">>))
    THEN Outcome(<<"U", "s", "a", "g", "e", ":", " ", "g", "r", "e", "p", " ", "[", "O", "P", "T", "I", "O", "N", "S", "]", " ", "P", "A", "T", "T", "E", "R", "N", " ", "F", "I", "L", "E", ".", ".", ".">>, 2, c, tree)
    ELSE GrepArgs(c, tree,
                  IF FlagIsTrue(cmd.flags, <<"i">>)
                  THEN <<"(", "?", "i", ")">> \o cmd.args[1] ELSE cmd.args[1],
                  IF Len(cmd.args) > 1 THEN SubSeq(cmd.args, 2, Len(cmd.args))
                  ELSE <<<<".">>>>,
                  1, <<>>)

\* handler(cmd, ctx, stdin) for the handler registered under `name`
RunHandler(name, cmd, c, tree, stdin) ==
    CASE name = <<"e", "c", "h", "o">>  -> handleEcho(cmd, c, tree)
      [] name = <<"c", "a", "t">>   -> handleCat(cmd, c, tree, stdin)
      [] name = <<"w", "c">>    -> handleWc(cmd, c, tree, stdin)
      [] name = <<"p", "w", "d">>   -> handlePwd(cmd, c, tree)
      [] name = <<"m", "k", "d", "i", "r">> -> handleMkdir(cmd, c, tree)
      [] name = <<"g", "r", "e", "p">>  -> handleGrep(cmd, c, tree)
      [] name = <<"t", "r", "u", "e">>  -> Outcome(<<>>, 0, c, tree)
      [] name = <<"f", "a", "l", "s", "e">> -> Outcome(<<>>, 1, c, tree)

(***************************************************************************)
(* PipelineExecutor.executeCommand                                         *)
(***************************************************************************)
\* /^[A-Za-z_]\w*$/.test(key)
IsVarName(key) ==
    /\ key # <<>>
    /\ key[1] \in Letters \cup {"_"}
    /\ \A k \in 2..Len(key) : key[k] \in WordChars

\* the VAR=value branch is taken
IsAssignment(command) ==
    /\ Includes(command, <<"=">>)
    /\ ~StartsWith(command, <<"=">>)
    /\ IsVarName(Slice(command, 0, IndexOf(command, <<"=">>)))

\* ApplyRedirect without the terminating newline
ApplyRedirectNoNewline(redirect, c, tree, output) ==
    Bind(ctxResolvePath(c, tree, redirect.file), LAMBDA filePath :
        IF redirect.append
        THEN appendFile(tree, filePath, output, <<"/">>).tree
        ELSE writeFile(tree, filePath, output, <<"/">>).tree)

\* the redirect block: the handler's output plus '\n' is written or
\* appended, the boolean the VFS returns is dropped
ApplyRedirect(redirect, c, tree, output) ==
    Bind(ctxResolvePath(c, tree, redirect.file), LAMBDA filePath :
        IF redirect.append
        THEN appendFile(tree, filePath, output \o <<"\n">>, <<"/">>).tree
        ELSE writeFile(tree, filePath, output \o <<"\n">>, <<"/">>).tree)

\* the catch block that reports exit code 0
InternalErrorExitZero(cmd, h) ==
    Outcome(cmd.command \o <<":", " ", "i", "n", "t", "e", "r", "n", "a", "l", " ", "e", "r", "r", "o", "r">>, 0, h.ctx, h.fs)

\* the catch block: the handler threw
InternalError(cmd, h) ==
    Outcome(cmd.command \o <<":", " ", "i", "n", "t", "e", "r", "n", "a", "l", " ", "e", "r", "r", "o", "r">>, 1, h.ctx, h.fs)

executeCommand(cmd, c, tree, stdin) ==
    IF cmd.command = <<>> THEN Outcome(<<>>, 0, c, tree)
    ELSE IF IsAssignment(cmd.command)
    THEN LET eqIdx == IndexOf(cmd.command, <<"=">>) IN
         Outcome(<<>>, 0,
                 [c EXCEPT !.env = EnvSet(@, Slice(cmd.command, 0, eqIdx),
                                          SliceFrom(cmd.command, eqIdx + 1))],
                 tree)
    ELSE IF ~registryHas(cmd.command)
    THEN Outcome(cmd.command \o <<":", " ", "c", "o", "m", "m", "a", "n", "d", " ", "n", "o", "t", " ", "f", "o", "u", "n", "d">>, 127, c, tree)
    ELSE Bind(RunHandler(ResolveAlias(cmd.command), cmd, c, tree, stdin), LAMBDA h :
         IF HasRaised(h) THEN InternalError(cmd, h)
         ELSE
         Bind([h.ctx EXCEPT !.exitCode = h.exitCode], LAMBDA c2 :
             IF cmd.outputRedirect.present
             THEN Outcome(<<>>, h.exitCode, c2,
                          ApplyRedirect(cmd.outputRedirect, c2, h.fs, h.output))
             ELSE Outcome(h.output, h.exitCode, c2, h.fs)))

(***************************************************************************)
(* The filesystem a session starts with (getDefaultFilesystem)             *)
(***************************************************************************)
DefaultTree ==
    LET locs == {<<>>, <<<<"h", "o", "m", "e">>>>, <<<<"h", "o", "m", "e">>, <<"c", "a", "n", "d", "i", "d", "a", "t", "e">>>>,
                 <<<<"o", "p", "t">>>>, <<<<"o", "p", "t">>, <<"f", "l", "e", "e", "t", "c", "o", "r", "e">>>>,
                 <<<<"o", "p", "t">>, <<"f", "l", "e", "e", "t", "c", "o", "r", "e">>, <<"R", "E", "A", "D", "M", "E", ".", "m", "d">>>>, <<<<"t", "m", "p">>>>}
    IN  [p \in locs |->
            IF p = <<<<"o", "p", "t">>, <<"f", "l", "e", "e", "t", "c", "o", "r", "e">>, <<"R", "E", "A", "D", "M", "E", ".", "m", "d">>>>
            THEN LoadedFile(<<"#", " ", "F", "l", "e", "e", "t", "C", "o", "r", "e", "\n", "F", "l", "e", "e", "t", " ", "M", "a", "n", "a", "g", "e", "m", "e", "n", "t", " ", "P", "l", "a", "t", "f", "o", "r", "m", "\n">>)
            ELSE IF p = <<>> THEN DirNode ELSE LoadedDir]

(***************************************************************************)
(* Input lines                                                             *)
(***************************************************************************)
\* longest generated pipeline, in commands
MaxCmds == 3

Operators == {<<"|">>, <<"&", "&">>, <<"|", "|">>, <<";">>}

CmdTexts == {<<"f", "a", "l", "s", "e">>, <<"e", "c", "h", "o", " ", "a">>, <<"c", "a", "t">>}

RECURSIVE LinesOf(_)
LinesOf(n) ==
    IF n = 1 THEN CmdTexts
    ELSE {l \o <<" ">> \o op \o <<" ">> \o c :
              l \in LinesOf(n - 1), op \in Operators, c \in CmdTexts}

\* commands with redirections, assignments and unknown names, used in pairs
RedirectTexts ==
    {<<"n", "o", "s", "u", "c", "h">>,
     <<"e", "c", "h", "o", " ", "b", " ", ">", " ", "/", "t", "m", "p", "/", "x">>,
     <<"e", "c", "h", "o", " ", "c", " ", ">", ">", " ", "/", "t", "m", "p", "/", "x">>,
     <<"c", "a", "t", " ", "/", "t", "m", "p", "/", "x">>,
     <<"e", "c", "h", "o", " ", "d", " ", ">", " ", "/", "n", "o", "d", "i", "r", "/", "x">>,
     <<"X", "=", "1">>}

PairLines ==
    {a \o <<" ">> \o op \o <<" ">> \o b :
         a \in RedirectTexts, op \in Operators, b \in RedirectTexts \cup CmdTexts}

GeneratedLines == UNION {LinesOf(n) : n \in 1..MaxCmds} \cup PairLines

QuotedPipelineLine == <<"e", "c", "h", "o", " ", "\"", "h", "e", "l", "l", "o", " ", "w", "o", "r", "l", "d", "\"", " ", "|", " ", "w", "c", " ", "-", "w">>

MkdirTwiceLine == <<"m", "k", "d", "i", "r", " ", "-", "p", " ", "a", "/", "b", "/", "c", " ", ";", " ", "m", "k", "d", "i", "r", " ", "-", "p", " ", "a", "/", "b", "/", "c">>

ShortCircuitLine == <<"f", "a", "l", "s", "e", " ", "&", "&", " ", "e", "c", "h", "o", " ", "s", "h", "o", "u", "l", "d", "-", "n", "o", "t", "-", "a", "p", "p", "e", "a", "r", " ", ";", " ", "t", "r", "u", "e", " ", "&", "&", " ", "e", "c", "h", "o", " ", "y", "e", "s">>

RedirectReadBackLine == <<"e", "c", "h", "o", " ", "h", "i", " ", ">", " ", "/", "t", "m", "p", "/", "x", " ", "&", "&", " ", "c", "a", "t", " ", "/", "t", "m", "p", "/", "x">>

ExampleLines ==
    {QuotedPipelineLine, ShortCircuitLine, RedirectReadBackLine, MkdirTwiceLine,
     <<";">>, <<"t", "r", "u", "e", " ", ";">>, <<"e", "c", "h", "o", " ", "a", " ", ">", " ", "/">>, <<"e", "c", "h", "o", " ", "d", " ", ">", " ", "/", "n", "o", "d", "i", "r", "/", "x">>, <<"e", "c", "h", "o", " ", "d", " ", ">", ">", " ", "/", "n", "o", "d", "i", "r", "/", "x">>, <<"e", "c", "h", "o", " ", "d", " ", ">", " ", "/", "t", "m", "p">>,
     <<"e", "c", "h", "o", " ", "c", " ", ">", ">", " ", "R", "E", "A", "D", "M", "E", ".", "m", "d", " ", ";", " ", "c", "a", "t", " ", "R", "E", "A", "D", "M", "E", ".", "m", "d">>,
     <<"e", "c", "h", "o", " ", "h", "i", " ", ">", ">", " ", "/", "t", "m", "p", "/", "x", " ", ";", " ", "e", "c", "h", "o", " ", "h", "o", " ", ">", ">", " ", "/", "t", "m", "p", "/", "x", " ", ";", " ", "c", "a", "t", " ", "/", "t", "m", "p", "/", "x">>,
     <<"e", "c", "h", "o", " ", "h", "i", " ", ">", "/", "t", "m", "p", "/", "x", " ", ";", " ", "e", "c", "h", "o", " ", "h", "o", " ", ">", ">", "/", "t", "m", "p", "/", "x", " ", ";", " ", "c", "a", "t", " ", "/", "t", "m", "p", "/", "x">>,
     <<"p", "w", "d", " ", ">", " ", "~", "/", "p", " ", ";", " ", "c", "a", "t", " ", "$", "H", "O", "M", "E", "/", "p">>, <<"X", "=", "1", " ", ";", " ", "e", "c", "h", "o", " ", "$", "X", " ", "$", "{", "X", "}">>, <<"X", "=", "1", " ", ">", " ", "/", "t", "m", "p", "/", "x">>,
     <<"n", "o", "s", "u", "c", "h", " ", ">", " ", "/", "t", "m", "p", "/", "x">>, <<"f", "a", "l", "s", "e", " ", ">", " ", "/", "t", "m", "p", "/", "x", " ", "|", "|", " ", "c", "a", "t", " ", "/", "t", "m", "p", "/", "x">>,
     <<"w", "c", " ", "-", "l", " ", "R", "E", "A", "D", "M", "E", ".", "m", "d">>, <<"e", "c", "h", "o", " ", "-", "n", " ", "a">>, <<"e", "c", "h", "o", " ", "-", "-", "e", " ", "'", "a", "\\", "n", "b", "'", " ", "|", " ", "w", "c">>}

Lines == GeneratedLines \cup ExampleLines

(***************************************************************************)
(* State                                                                   *)
(***************************************************************************)
VARIABLES
    line,        \* the raw input handed to PipelineExecutor.execute
    pipeline,    \* parser.parse(input)
    idx,         \* the loop variable i of executePipeline
    lastResult,  \* executePipeline's lastResult
    pipeInput,   \* executePipeline's pipeInput
    pc,          \* "idle", "pipeline" (inside the loop, at an await) or "done"
    result,      \* the CommandResult execute resolves to
    ctx,         \* the CommandContext
    fs,          \* the VirtualFileSystem tree
    executed,    \* history: one record per executeCommand call of this line
    buffer,      \* InputBuffer.buffer
    cursorPos,   \* InputBuffer.cursorPos
    history,     \* InputBuffer.history
    historyIndex, \* InputBuffer.historyIndex
    tempBuffer,  \* InputBuffer.tempBuffer
    edits,       \* history: how many calls that edit or submit the buffer were made
    last,        \* history: the last editor call, the buffer and cursor
                 \* it found and the string it returned
    nav,         \* history: the run of consecutive arrow-up / arrow-down
                 \* keys in progress, the line it started from, and how
                 \* many entries back it stands by the keys pressed
    call,        \* history: the last call of a VirtualFileSystem method made
                 \* directly, its arguments, the tree it found and what it
                 \* returned
    calls,       \* history: how many such calls were made
    processing,  \* TerminalEngine.processing
    multiLineMode, \* TerminalEngine.multiLineMode
    events,      \* the events handed to onEvent, in order
    tasks,       \* the calls of handleInput and executePastedLines that are
                 \* suspended at an await, in the order they were made
    turn,        \* "caller": the code that calls the engine's methods runs;
                 \* "microtasks": continuations of settled awaits run
    inputs,      \* history: how many times handleInput or handlePaste was called
    delivered,   \* history: the last such call, its argument, the state it
                 \* found (with the number of suspended calls) and whether
                 \* processing was set when it was made
    heredoc,     \* history: the line that opened multi-line mode and every
                 \* line submitted since, the empty ones included
    now,         \* Date.now()
    timestamps,  \* BurstDetector.timestamps
    recorderEvents, \* KeystrokeRecorder.events
    flushInterval, \* KeystrokeRecorder.flushInterval
    intervals,   \* the handles of the intervals that were set and not cleared
    handles,     \* how many times setInterval was called
    flushed,     \* the batches handed to onFlush, in order
    keysLeft,    \* how many more times recordKey is called
    pausesLeft,  \* how many more of the keys come after a pause
    callsLeft,   \* how many more times start, stop or flush is called or an
                 \* interval fires
    burst,       \* history: what the last call of addKeystroke returned and
                 \* the window it had built
    lastCall,    \* history: the last method of the recorder that has returned
    replayEvents, \* SessionReplay.events
    currentIndex, \* SessionReplay.currentIndex
    isPlaying,   \* SessionReplay.isPlaying
    speed,       \* SessionReplay.speed
    timer,       \* SessionReplay.timer
    timeouts,    \* the timeouts that were set and have neither fired nor been
                 \* cleared, each with the delay it was set with
    timeoutHandles, \* how many times setTimeout was called
    replayed,    \* the events handed to onEvent, in order
    stateChanges, \* the states handed to onStateChange, in order
    replayCallsLeft, \* how many more times a method of the replay is called
    seek,        \* history: the last call of seekTo or seekToTime, its
                 \* argument, the index it found, the index it left and how
                 \* many times it called onStateChange
    scoredEvents, \* the event log handed to IntegrityScorer.generateReport
    pasteEvents, \* PasteDetector.pasteEvents
    reports,     \* history: what the calls of generateReport returned, in order
    reportsLeft, \* how many more times generateReport is called
    detectionsLeft, \* how many more times a paste is recorded by the detector
    gitState,    \* the object gitState of the module of the git commands
    dockerState, \* the object dockerState of the module of the docker commands
    alone,       \* history: for each engine, the gitState and dockerState its
                 \* own commands would have made of new ones
    toolRun,     \* history: the last git or docker command, the engine that
                 \* ran it, its result and the result it has on `alone`
    toolRunsLeft, \* how many more git or docker commands are run
    parseInput,  \* the input handed to CommandParser.parse
    parsed,      \* what parse returned for it, once it was called
    challenge,   \* ctx.challenge
    challengeCmd, \* history: the last challenge command and the challenge
                 \* before and after it
    challengeCmdsLeft \* how many more challenge commands are run

vars == <<line, pipeline, idx, lastResult, pipeInput, pc, result, ctx, fs, executed,
          buffer, cursorPos, history, historyIndex, tempBuffer, edits, last, nav,
          call, calls, processing, multiLineMode, events, tasks, turn, inputs, delivered,
          heredoc, now, timestamps, recorderEvents, flushInterval, intervals, handles,
          flushed, keysLeft, pausesLeft, callsLeft, burst, lastCall, replayEvents,
          currentIndex, isPlaying, speed, timer, timeouts, timeoutHandles, replayed,
          stateChanges, replayCallsLeft, seek, scoredEvents, pasteEvents, reports,
          reportsLeft, detectionsLeft, gitState, dockerState, alone, toolRun,
          toolRunsLeft, parseInput, parsed, challenge, challengeCmd,
          challengeCmdsLeft>>

editVars == <<buffer, cursorPos, history, historyIndex, tempBuffer, edits, last, nav>>

execVars == <<line, pipeline, idx, lastResult, pipeInput, pc, result, ctx, fs, executed>>

vfsVars == <<call, calls>>

\* what the executor's steps leave alone, and what the editor's calls do
engineVars == <<processing, multiLineMode, events, tasks, turn, inputs, delivered,
                heredoc>>

recorderVars == <<now, timestamps, recorderEvents, flushInterval, intervals, handles,
                  flushed, keysLeft, pausesLeft, callsLeft, burst, lastCall>>

\* the recording and the replay of a session
replayVars == <<replayEvents, currentIndex, isPlaying, speed, timer, timeouts,
                timeoutHandles, replayed, stateChanges, replayCallsLeft, seek>>

scorerVars == <<scoredEvents, pasteEvents, reports, reportsLeft, detectionsLeft>>

toolVars == <<gitState, dockerState, alone, toolRun, toolRunsLeft>>

parserVars == <<parseInput, parsed>>

challengeVars == <<challenge, challengeCmd, challengeCmdsLeft>>

sessionVars == <<recorderVars, replayVars, scorerVars, toolVars, parserVars,
                 challengeVars>>

notExecVars == <<editVars, vfsVars, engineVars, sessionVars>>

notEditVars == <<execVars, vfsVars, engineVars, sessionVars>>

EmptyPipeline == [commands |-> <<>>, operators |-> <<>>]

\* the state of an engine that has not run a line yet
ExecIdleOn(tree) ==
    /\ line = <<>>
    /\ pipeline = EmptyPipeline
    /\ idx = 0
    /\ lastResult = Result(<<>>, 0)
    /\ pipeInput = NoStdin
    /\ pc = "idle"
    /\ result = Result(<<>>, 0)
    /\ ctx = InitialContext
    /\ fs = tree
    /\ executed = <<>>

ExecIdle == ExecIdleOn(DefaultTree)

\* no VirtualFileSystem method was called directly yet
NoVfsCall ==
    [name |-> "none", path |-> <<>>, content |-> <<>>, recursive |-> FALSE,
     before |-> EmptyTree, ok |-> FALSE, value |-> NullContent]

VfsIdle == call = NoVfsCall /\ calls = 0

\* multiLineMode = null
NoMode == [on |-> FALSE, delimiter |-> <<>>, lines |-> <<>>, command |-> <<>>]

NoHeredoc == [state |-> "none", command |-> <<>>, lines |-> <<>>, ran |-> FALSE]

\* the state of a new engine, as the history of calls keeps it
NewEngine ==
    [buffer |-> <<>>, cursorPos |-> 0, history |-> <<>>, historyIndex |-> -1,
     tempBuffer |-> <<>>, mode |-> NoMode, processing |-> FALSE, ctx |-> InitialContext, fs |-> DefaultTree,
     events |-> <<>>, heredoc |-> NoHeredoc, tasks |-> 0]

NoDelivery == [handler |-> "none", data |-> <<>>, dropped |-> FALSE, before |-> NewEngine]

\* no interval is set: flushInterval = null
NoInterval == 0

\* addKeystroke was not called yet
NoBurst == [detected |-> FALSE, count |-> 0, duration |-> 0, window |-> <<>>]

\* a new KeystrokeRecorder, on which `keys` calls of recordKey, `pauses` of
\* them after a pause, and `others` other calls will be made
RecorderIdle(keys, pauses, others) ==
    /\ now = 0
    /\ timestamps = <<>>
    /\ recorderEvents = <<>>
    /\ flushInterval = NoInterval
    /\ intervals = {}
    /\ handles = 0
    /\ flushed = <<>>
    /\ keysLeft = keys
    /\ pausesLeft = pauses
    /\ callsLeft = others
    /\ burst = NoBurst
    /\ lastCall = "none"

\* timer = null
NoTimer == 0

\* neither seekTo nor seekToTime was called yet
NoSeek == [name |-> "none", arg |-> 0, before |-> 0, after |-> 0, notified |-> 0]

\* new SessionReplay(events), the events already in the order the constructor
\* leaves them in, on which `others` calls will be made
ReplayIdle(sortedEvents, others) ==
    /\ replayEvents = sortedEvents
    /\ currentIndex = 0
    /\ isPlaying = FALSE
    /\ speed = 1
    /\ timer = NoTimer
    /\ timeouts = {}
    /\ timeoutHandles = 0
    /\ replayed = <<>>
    /\ stateChanges = <<>>
    /\ replayCallsLeft = others
    /\ seek = NoSeek

\* a new IntegrityScorer that is to score the log `log`, with a PasteDetector
\* that has recorded `pastes`; `asked` reports will be asked for and `more`
\* pastes recorded
ScorerIdle(log, pastes, asked, more) ==
    /\ scoredEvents = log
    /\ pasteEvents = pastes
    /\ reports = <<>>
    /\ reportsLeft = asked
    /\ detectionsLeft = more

\* the engines of the process
Engines == {1, 2}

\* the commits gitState starts with
InitialCommits ==
    <<[hash |-> <<"a", "3", "f", "2", "e", "1", "d">>, message |-> <<"f", "e", "a", "t", ":", " ", "a", "d", "d", " ", "v", "e", "h", "i", "c", "l", "e", " ", "t", "r", "a", "c", "k", "i", "n", "g", " ", "e", "n", "d", "p", "o", "i", "n", "t", "s">>,
       author |-> <<"d", "e", "v", "@", "f", "l", "e", "e", "t", "c", "o", "r", "e", ".", "i", "o">>, date |-> <<"2", "0", "2", "4", "-", "0", "1", "-", "1", "4", " ", "1", "6", ":", "3", "0", ":", "0", "0", " ", "+", "0", "0", "0", "0">>],
      [hash |-> <<"b", "4", "c", "3", "d", "2", "e">>, message |-> <<"f", "i", "x", ":", " ", "r", "e", "s", "o", "l", "v", "e", " ", "R", "e", "d", "i", "s", " ", "c", "o", "n", "n", "e", "c", "t", "i", "o", "n", " ", "t", "i", "m", "e", "o", "u", "t">>,
       author |-> <<"d", "e", "v", "@", "f", "l", "e", "e", "t", "c", "o", "r", "e", ".", "i", "o">>, date |-> <<"2", "0", "2", "4", "-", "0", "1", "-", "1", "4", " ", "1", "4", ":", "1", "5", ":", "0", "0", " ", "+", "0", "0", "0", "0">>],
      [hash |-> <<"c", "5", "d", "4", "e", "3", "f">>, message |-> <<"c", "h", "o", "r", "e", ":", " ", "u", "p", "d", "a", "t", "e", " ", "D", "o", "c", "k", "e", "r", " ", "c", "o", "m", "p", "o", "s", "e", " ", "c", "o", "n", "f", "i", "g", "u", "r", "a", "t", "i", "o", "n">>,
       author |-> <<"d", "e", "v", "@", "f", "l", "e", "e", "t", "c", "o", "r", "e", ".", "i", "o">>, date |-> <<"2", "0", "2", "4", "-", "0", "1", "-", "1", "3", " ", "1", "0", ":", "0", "0", ":", "0", "0", " ", "+", "0", "0", "0", "0">>],
      [hash |-> <<"d", "6", "e", "5", "f", "4", "a">>, message |-> <<"f", "e", "a", "t", ":", " ", "i", "m", "p", "l", "e", "m", "e", "n", "t", " ", "d", "r", "i", "v", "e", "r", " ", "m", "a", "n", "a", "g", "e", "m", "e", "n", "t", " ", "A", "P", "I">>,
       author |-> <<"d", "e", "v", "@", "f", "l", "e", "e", "t", "c", "o", "r", "e", ".", "i", "o">>, date |-> <<"2", "0", "2", "4", "-", "0", "1", "-", "1", "2", " ", "1", "1", ":", "3", "0", ":", "0", "0", " ", "+", "0", "0", "0", "0">>],
      [hash |-> <<"e", "7", "f", "6", "a", "5", "b">>, message |-> <<"i", "n", "i", "t", "i", "a", "l", " ", "c", "o", "m", "m", "i", "t">>,
       author |-> <<"d", "e", "v", "@", "f", "l", "e", "e", "t", "c", "o", "r", "e", ".", "i", "o">>, date |-> <<"2", "0", "2", "4", "-", "0", "1", "-", "1", "0", " ", "0", "9", ":", "0", "0", ":", "0", "0", " ", "+", "0", "0", "0", "0">>]>>

\* gitState as the module is loaded
InitialGitState ==
    [branch |-> <<"m", "a", "i", "n">>, stagedFiles |-> <<>>, modifiedFiles |-> <<>>,
     commits |-> InitialCommits, initialized |-> TRUE]

\* dockerState as the module is loaded; the Map is kept as the sequence of
\* its values in insertion order
InitialDockerState == [containers |-> <<>>, initialized |-> FALSE]

\* no git or docker command was run yet
NoToolRun == [engine |-> 0, line |-> <<>>, result |-> <<>>, alone |-> <<>>]

\* the modules of the git and docker commands as they are loaded; `runs`
\* commands will be run
ToolsIdle(runs) ==
    /\ gitState = InitialGitState
    /\ dockerState = InitialDockerState
    /\ alone = [e \in Engines |-> [git |-> InitialGitState, docker |-> InitialDockerState]]
    /\ toolRun = NoToolRun
    /\ toolRunsLeft = runs

\* no session is replayed or scored and no git or docker command is run
\* parse was not called
NotParsed == [called |-> FALSE, commands |-> <<>>, operators |-> <<>>]

ParserIdle == parseInput = <<>> /\ parsed = NotParsed

\* the ChallengeState a CommandContext is constructed with
NewChallenge(seniority) ==
    [currentLevel |-> 1, seniority |-> seniority, completedObjectives |-> <<>>,
     hintsUsed |-> <<>>]

NoChallengeCmd == [line |-> <<>>, before |-> NewChallenge("mid"), exitCode |-> 0]

ChallengeIdle(runs) ==
    /\ challenge = NewChallenge("mid")
    /\ challengeCmd = NoChallengeCmd
    /\ challengeCmdsLeft = runs

NoSession == ReplayIdle(<<>>, 0) /\ ScorerIdle(<<>>, <<>>, 0, 0) /\ ToolsIdle(0) /\ ParserIdle /\ ChallengeIdle(0)

\* no session is recorded, replayed or scored
SessionIdle == RecorderIdle(0, 0, 0) /\ NoSession

\* the engine after its constructor: nothing is running
EngineIdle ==
    /\ processing = FALSE
    /\ multiLineMode = NoMode
    /\ events = <<>>
    /\ tasks = <<>>
    /\ turn = "caller"
    /\ inputs = 0
    /\ delivered = NoDelivery
    /\ heredoc = NoHeredoc

\* the record kept of one executeCommand call
Executed(i, cmd, stdin, c, tree, out) ==
    [index |-> i, cmd |-> cmd, stdin |-> stdin, ctxBefore |-> c, fsBefore |-> tree,
     output |-> out.output, exitCode |-> out.exitCode,
     ctxExitCode |-> out.ctx.exitCode]

(***************************************************************************)
(* InputBuffer: the line editor                                            *)
(*                                                                         *)
(* The strings the methods return are terminal echo; the model keeps the   *)
(* one tabComplete returns, which says whether the candidates were listed. *)
(***************************************************************************)

\* how many calls that edit or submit the buffer the model makes in one run
MaxEdits == 2

\* `\x1b[${n}${letter}`
CSI(n, letter) == <<Esc, "[">> \o NatToString(n) \o <<letter>>

\* the last call was not tabComplete
NoCall == [op |-> "other", buffer |-> <<>>, cursorPos |-> 0, out |-> <<>>]

\* the last call was tabComplete: it found this buffer and cursor and
\* returned `out`
TabCall(out) ==
    [op |-> "tabComplete", buffer |-> buffer, cursorPos |-> cursorPos, out |-> out]

NoNav == [on |-> FALSE, fresh |-> <<>>, depth |-> 0, peak |-> 0]

\* a new InputBuffer
EditIdle ==
    /\ buffer = <<>>
    /\ cursorPos = 0
    /\ history = <<>>
    /\ historyIndex = -1
    /\ tempBuffer = <<>>
    /\ edits = 0
    /\ last = NoCall
    /\ nav = NoNav

\* a call that is neither tabComplete nor an arrow key
Other == last' = NoCall /\ nav' = NoNav

\* the body of insert(char): the new buffer and cursor and the string
\* returned
InsertAt(buf, cur, char) ==
    LET before == Slice(buf, 0, cur)
        after  == SliceFrom(buf, cur)
    IN  [buffer |-> before \o char \o after,
         cursorPos |-> cur + Len(char),
         out |-> IF Len(after) > 0
                 THEN char \o after \o CSI(Len(after), "D")
                 ELSE char]

\* the engine hands a printable character to insert
insert(char) ==
    /\ edits < MaxEdits
    /\ buffer' = InsertAt(buffer, cursorPos, <<char>>).buffer
    /\ cursorPos' = InsertAt(buffer, cursorPos, <<char>>).cursorPos
    /\ edits' = edits + 1
    /\ Other
    /\ UNCHANGED <<history, historyIndex, tempBuffer>>
    /\ UNCHANGED notEditVars

backspace ==
    /\ edits < MaxEdits
    /\ IF cursorPos = 0
       THEN UNCHANGED <<buffer, cursorPos>>
       ELSE /\ buffer' = Slice(buffer, 0, cursorPos - 1) \o SliceFrom(buffer, cursorPos)
            /\ cursorPos' = cursorPos - 1
    /\ Other
    /\ UNCHANGED <<history, historyIndex, tempBuffer>>
    /\ UNCHANGED notEditVars
    /\ edits' = edits + 1

delete ==
    /\ edits < MaxEdits
    /\ IF cursorPos >= Len(buffer)
       THEN UNCHANGED buffer
       ELSE buffer' = Slice(buffer, 0, cursorPos) \o SliceFrom(buffer, cursorPos + 1)
    /\ Other
    /\ UNCHANGED <<cursorPos, history, historyIndex, tempBuffer>>
    /\ UNCHANGED notEditVars
    /\ edits' = edits + 1

moveLeft ==
    /\ IF cursorPos = 0 THEN UNCHANGED cursorPos ELSE cursorPos' = cursorPos - 1
    /\ Other
    /\ UNCHANGED <<buffer, history, historyIndex, tempBuffer, edits>>
    /\ UNCHANGED notEditVars

moveRight ==
    /\ IF cursorPos >= Len(buffer) THEN UNCHANGED cursorPos ELSE cursorPos' = cursorPos + 1
    /\ Other
    /\ UNCHANGED <<buffer, history, historyIndex, tempBuffer, edits>>
    /\ UNCHANGED notEditVars

moveToStart ==
    /\ IF cursorPos = 0 THEN UNCHANGED cursorPos ELSE cursorPos' = 0
    /\ Other
    /\ UNCHANGED <<buffer, history, historyIndex, tempBuffer, edits>>
    /\ UNCHANGED notEditVars

moveToEnd ==
    /\ IF cursorPos >= Len(buffer) THEN UNCHANGED cursorPos ELSE cursorPos' = Len(buffer)
    /\ Other
    /\ UNCHANGED <<buffer, history, historyIndex, tempBuffer, edits>>
    /\ UNCHANGED notEditVars

killToEnd ==
    /\ edits < MaxEdits
    /\ IF cursorPos >= Len(buffer)
       THEN UNCHANGED buffer
       ELSE buffer' = Slice(buffer, 0, cursorPos)
    /\ Other
    /\ UNCHANGED <<cursorPos, history, historyIndex, tempBuffer>>
    /\ UNCHANGED notEditVars
    /\ edits' = edits + 1

\* killToStart that leaves the cursor where it was
killToStartKeepsCursor ==
    /\ edits < MaxEdits
    /\ IF cursorPos = 0
       THEN UNCHANGED <<buffer, cursorPos>>
       ELSE /\ buffer' = SliceFrom(buffer, cursorPos)
            /\ UNCHANGED cursorPos
    /\ Other
    /\ UNCHANGED <<history, historyIndex, tempBuffer>>
    /\ UNCHANGED notEditVars
    /\ edits' = edits + 1

killToStart ==
    /\ edits < MaxEdits
    /\ IF cursorPos = 0
       THEN UNCHANGED <<buffer, cursorPos>>
       ELSE /\ buffer' = SliceFrom(buffer, cursorPos)
            /\ cursorPos' = 0
    /\ Other
    /\ UNCHANGED <<history, historyIndex, tempBuffer>>
    /\ UNCHANGED notEditVars
    /\ edits' = edits + 1

\* while (newPos > 0 && this.buffer[newPos - 1] === ' ') newPos--
RECURSIVE SkipSpacesBack(_, _)
SkipSpacesBack(buf, newPos) ==
    IF newPos > 0 /\ buf[newPos] = " " THEN SkipSpacesBack(buf, newPos - 1) ELSE newPos

\* while (newPos > 0 && this.buffer[newPos - 1] !== ' ') newPos--
RECURSIVE SkipWordBack(_, _)
SkipWordBack(buf, newPos) ==
    IF newPos > 0 /\ buf[newPos] # " " THEN SkipWordBack(buf, newPos - 1) ELSE newPos

deleteWordBack ==
    /\ edits < MaxEdits
    /\ IF cursorPos = 0
       THEN UNCHANGED <<buffer, cursorPos>>
       ELSE LET before == Slice(buffer, 0, cursorPos)
                after  == SliceFrom(buffer, cursorPos)
                newPos == SkipWordBack(buffer, SkipSpacesBack(buffer, cursorPos - 1))
            IN  /\ buffer' = Slice(before, 0, newPos) \o after
                /\ cursorPos' = newPos
    /\ Other
    /\ UNCHANGED <<history, historyIndex, tempBuffer>>
    /\ UNCHANGED notEditVars
    /\ edits' = edits + 1

\* replaceLine(newContent)
replaceLine(newContent) ==
    /\ buffer' = newContent
    /\ cursorPos' = Len(newContent)

\* the arrow keys pressed so far stand `depth` entries back from `fresh`,
\* and stood at most `peak` entries back
NavUp ==
    IF nav.on
    THEN [nav EXCEPT !.depth = Min(@ + 1, Len(history)),
                     !.peak = Max(@, Min(nav.depth + 1, Len(history)))]
    ELSE IF historyIndex = -1
    THEN [on |-> TRUE, fresh |-> buffer, depth |-> Min(1, Len(history)),
          peak |-> Min(1, Len(history))]
    ELSE NoNav

NavDown ==
    IF nav.on THEN [nav EXCEPT !.depth = Max(@ - 1, 0)]
    ELSE IF historyIndex = -1
    THEN [on |-> TRUE, fresh |-> buffer, depth |-> 0, peak |-> 0]
    ELSE NoNav

\* historyUp that does not keep the line being edited
historyUpNoSave ==
    /\ IF Len(history) = 0
       THEN UNCHANGED <<buffer, cursorPos, historyIndex, tempBuffer>>
       ELSE IF historyIndex = -1
       THEN /\ UNCHANGED tempBuffer
            /\ historyIndex' = Len(history) - 1
            /\ replaceLine(history[Len(history)])
       ELSE IF historyIndex > 0
       THEN /\ historyIndex' = historyIndex - 1
            /\ replaceLine(history[historyIndex])
            /\ UNCHANGED tempBuffer
       ELSE UNCHANGED <<buffer, cursorPos, historyIndex, tempBuffer>>
    /\ last' = NoCall
    /\ nav' = NavUp
    /\ UNCHANGED <<history, edits>>
    /\ UNCHANGED notEditVars

historyUp ==
    /\ IF Len(history) = 0
       THEN UNCHANGED <<buffer, cursorPos, historyIndex, tempBuffer>>
       ELSE IF historyIndex = -1
       THEN /\ tempBuffer' = buffer
            /\ historyIndex' = Len(history) - 1
            /\ replaceLine(history[Len(history)])
       ELSE IF historyIndex > 0
       THEN /\ historyIndex' = historyIndex - 1
            /\ replaceLine(history[historyIndex])
            /\ UNCHANGED tempBuffer
       ELSE UNCHANGED <<buffer, cursorPos, historyIndex, tempBuffer>>
    /\ last' = NoCall
    /\ nav' = NavUp
    /\ UNCHANGED <<history, edits>>
    /\ UNCHANGED notEditVars

historyDown ==
    /\ IF historyIndex = -1
       THEN UNCHANGED <<buffer, cursorPos, historyIndex>>
       ELSE IF historyIndex < Len(history) - 1
       THEN /\ historyIndex' = historyIndex + 1
            /\ replaceLine(history[historyIndex + 2])
       ELSE /\ historyIndex' = -1
            /\ replaceLine(tempBuffer)
    /\ last' = NoCall
    /\ nav' = NavDown
    /\ UNCHANGED <<history, tempBuffer, edits>>
    /\ UNCHANGED notEditVars

submit ==
    /\ edits < MaxEdits
    /\ history' = IF Trim(buffer) # <<>> THEN Append(history, Trim(buffer)) ELSE history
    /\ buffer' = <<>>
    /\ cursorPos' = 0
    /\ historyIndex' = -1
    /\ edits' = edits + 1
    /\ Other
    /\ UNCHANGED tempBuffer
    /\ UNCHANGED notEditVars

clear ==
    /\ buffer' = <<>>
    /\ cursorPos' = 0
    /\ historyIndex' = -1
    /\ Other
    /\ UNCHANGED <<history, tempBuffer, edits>>
    /\ UNCHANGED notEditVars

\* insertText whose loop inserts every character at the start of the buffer
InsertTextAtStart(r, text, k) ==
    IF k > Len(text) THEN r
    ELSE [buffer |-> text \o r.buffer, cursorPos |-> Len(text)]

\* the for loop of insertText: every character but \n and \r is inserted
RECURSIVE InsertTextFrom(_, _, _)
InsertTextFrom(r, text, k) ==
    IF k > Len(text) THEN r
    ELSE IF text[k] \in {"\n", "\r"} THEN InsertTextFrom(r, text, k + 1)
    ELSE InsertTextFrom(InsertAt(r.buffer, r.cursorPos, <<text[k]>>), text, k + 1)

insertText(text) ==
    /\ edits < MaxEdits
    /\ \E r \in {InsertTextFrom([buffer |-> buffer, cursorPos |-> cursorPos], text, 1)} :
        /\ buffer' = r.buffer
        /\ cursorPos' = r.cursorPos
    /\ edits' = edits + 1
    /\ Other
    /\ UNCHANGED <<history, historyIndex, tempBuffer>>
    /\ UNCHANGED notEditVars

(***************************************************************************)
(* Tab completion: InputBuffer.tabComplete, TerminalEngine.getCompletions, *)
(* VirtualFileSystem.completePath, CommandRegistry.getCommandNames         *)
(***************************************************************************)
\* the printable ASCII characters in code order, from U+0020 (GRAVE
\* stands for U+0060)
Ascii ==
    <<" ", "!", "\"", "#", "$", "%", "&", "'", "(", ")", "*", "+", ",", "-", ".", "/",
      "0", "1", "2", "3", "4", "5", "6", "7", "8", "9", ":", ";", "<", "=", ">", "?",
      "@", "A", "B", "C", "D", "E", "F", "G", "H", "I", "J", "K", "L", "M", "N", "O",
      "P", "Q", "R", "S", "T", "U", "V", "W", "X", "Y", "Z", "[", "\\", "]", "^", "_",
      "GRAVE", "a", "b", "c", "d", "e", "f", "g", "h", "i", "j", "k", "l", "m", "n", "o",
      "p", "q", "r", "s", "t", "u", "v", "w", "x", "y", "z", "{", "|", "}", "~">>

\* c.charCodeAt(0)
CharCode(c) == 31 + CHOOSE k \in 1..Len(Ascii) : Ascii[k] = c

\* a < b in the order Array.prototype.sort() uses: by code unit, a proper
\* prefix first
RECURSIVE StrLess(_, _)
StrLess(a, b) ==
    IF b = <<>> THEN FALSE
    ELSE IF a = <<>> THEN TRUE
    ELSE IF Head(a) = Head(b) THEN StrLess(Tail(a), Tail(b))
    ELSE CharCode(Head(a)) < CharCode(Head(b))

\* the distinct strings of S as sort() orders them
RECURSIVE SortStrings(_)
SortStrings(S) ==
    IF S = {} THEN <<>>
    ELSE LET least == CHOOSE a \in S : \A b \in S \ {a} : StrLess(a, b)
         IN  <<least>> \o SortStrings(S \ {least})

\* CommandRegistry.getCommandNames
getCommandNames == SortStrings(RegisteredHandlers \cup DOMAIN Aliases)

\* VirtualFileSystem.completePath
completePath(tree, partial, cwd) ==
    LET parts      == FilterNonEmpty(Split(fsResolvePath(partial, cwd), "/"))
        lastPart   == IF parts = <<>> THEN <<>> ELSE parts[Len(parts)]
        rest       == IF parts = <<>> THEN <<>> ELSE SubSeq(parts, 1, Len(parts) - 1)
    IN  Bind(resolve(tree, PathString(rest), <<"/">>), LAMBDA parent :
            IF ~parent.found \/ tree[parent.at].type # "directory" THEN <<>>
            ELSE SortStrings(
                     {IF tree[Append(parent.at, name)].type = "directory"
                      THEN Append(name, "/") ELSE name :
                          name \in {n \in ChildNames(tree, parent.at) :
                                        StartsWith(n, lastPart)}}))

\* TerminalEngine.getCompletions, buf being inputBuffer.getBuffer()
getCompletions(partial, buf, c, tree) ==
    IF Includes(partial, <<"/">>) \/ StartsWith(partial, <<".">>)
           \/ StartsWith(partial, <<"~">>)
    THEN completePath(tree, partial, c.cwd)
    ELSE IF Len(SplitWs(Trim(buf))) <= 1
    THEN SelectSeq(getCommandNames, LAMBDA name : StartsWith(name, partial))
    ELSE completePath(tree, partial, c.cwd)

\* findCommonPrefix: the for loop over strings[i] and, inside it, the
\* while loop that drops the last character of prefix
RECURSIVE CommonPrefixFrom(_, _, _)
CommonPrefixFrom(strings, i, prefix) ==
    IF i > Len(strings) THEN prefix
    ELSE IF StartsWith(strings[i], prefix)
    THEN CommonPrefixFrom(strings, i + 1, prefix)
    ELSE CommonPrefixFrom(strings, i, SubSeq(prefix, 1, Len(prefix) - 1))

findCommonPrefix(strings) ==
    IF Len(strings) = 0 THEN <<>> ELSE CommonPrefixFrom(strings, 2, strings[1])

\* the last element of beforeCursor.split(/\s+/)
PartialAt(buf, cur) ==
    LET tokens == SplitWs(Slice(buf, 0, cur)) IN tokens[Len(tokens)]

\* tabComplete, the provider being getCompletions
tabComplete ==
    /\ edits < MaxEdits
    /\ \E partial \in {PartialAt(buffer, cursorPos)} :
       \E candidates \in {getCompletions(partial, buffer, ctx, fs)} :
       \E r \in {IF Len(candidates) = 0
                 THEN [buffer |-> buffer, cursorPos |-> cursorPos, out |-> <<>>]
                 ELSE IF Len(candidates) = 1
                 THEN InsertAt(buffer, cursorPos,
                               SliceFrom(candidates[1], Len(partial))
                                   \o (IF EndsWith(candidates[1], <<"/">>)
                                       THEN <<>> ELSE <<" ">>))
                 ELSE IF Len(findCommonPrefix(candidates)) > Len(partial)
                 THEN InsertAt(buffer, cursorPos,
                               SliceFrom(findCommonPrefix(candidates), Len(partial)))
                 ELSE [buffer |-> buffer, cursorPos |-> cursorPos,
                       out |-> <<"\r", "\n">> \o Join(candidates, <<" ", " ">>)
                                   \o <<"\r", "\n">>]} :
        /\ buffer' = r.buffer
        /\ cursorPos' = r.cursorPos
        /\ last' = TabCall(r.out)
    /\ nav' = NoNav
    /\ UNCHANGED <<history, historyIndex, tempBuffer>>
    /\ UNCHANGED notEditVars
    /\ edits' = edits + 1

(***************************************************************************)
(* Keys and pasted texts given to the line editor                          *)
(***************************************************************************)
\* printable keys
Keys == {"z"}

\* texts pasted in one piece; insertText drops the carriage return
PasteTexts == {<<"w", "c", " ", "R">>, <<"/", "t", "m">>, <<"p", "\r", "y">>}

\* the histories an editor session starts from: none, or ls and pip
\* submitted in that order
StartHistories == {<<>>, <<<<"l", "s">>, <<"p", "i", "p">>>>}

(***************************************************************************)
(* PipelineExecutor.execute and executePipeline                            *)
(***************************************************************************)
\* execute(input): no command at all
ExecuteEmpty(input, p) ==
    /\ pc = "idle"
    /\ Len(p.commands) = 0
    /\ line' = input
    /\ pipeline' = p
    /\ result' = Result(<<>>, 0)
    /\ pc' = "done"
    /\ UNCHANGED <<idx, lastResult, pipeInput, ctx, fs, executed>>
    /\ UNCHANGED notExecVars

\* execute(input): a single command and no operator
ExecuteSingle(input, p) ==
    /\ pc = "idle"
    /\ Len(p.commands) = 1 /\ Len(p.operators) = 0
    /\ \E out \in {executeCommand(p.commands[1], ctx, fs, NoStdin)} :
        /\ line' = input
        /\ pipeline' = p
        /\ result' = Result(out.output, out.exitCode)
        /\ ctx' = out.ctx
        /\ fs' = out.fs
        /\ executed' = Append(executed, Executed(0, p.commands[1], NoStdin, ctx, fs, out))
        /\ pc' = "done"
        /\ UNCHANGED <<idx, lastResult, pipeInput>>
        /\ UNCHANGED notExecVars

\* execute(input): anything else enters executePipeline
ExecutePipeline(input, p) ==
    /\ pc = "idle"
    /\ Len(p.commands) # 0
    /\ ~(Len(p.commands) = 1 /\ Len(p.operators) = 0)
    /\ line' = input
    /\ pipeline' = p
    /\ idx' = 0
    /\ lastResult' = Result(<<>>, 0)
    /\ pipeInput' = NoStdin
    /\ pc' = "pipeline"
    /\ UNCHANGED <<result, ctx, fs, executed>>
    /\ UNCHANGED notExecVars

\* pipeline.operators[i - 1] for i > 0, else undefined
OperatorBefore(p, i) ==
    IF i > 0 /\ i <= Len(p.operators) THEN p.operators[i] ELSE "none"

\* BreakCondition without the `||` test
BreakConditionAndOnly(operator, exitCode) ==
    operator = "&&" /\ exitCode # 0

\* the two break conditions at the head of the loop body
BreakCondition(operator, exitCode) ==
    \/ operator = "&&" /\ exitCode # 0
    \/ operator = "||" /\ exitCode = 0

\* pipeInput after command i has returned `out`
NextPipeInput(p, i, operator, out) ==
    LET afterExec == IF operator = "|" THEN Stdin(out.output) ELSE NoStdin IN
    IF i < Len(p.operators) /\ p.operators[i + 1] = "|"
    THEN Stdin(out.output)
    ELSE afterExec

\* one iteration of the for loop that runs its command
PipelineStep ==
    LET operator == OperatorBefore(pipeline, idx)
        cmd      == pipeline.commands[idx + 1]
    IN  /\ pc = "pipeline"
        /\ idx < Len(pipeline.commands)
        /\ ~BreakCondition(operator, lastResult.exitCode)
        /\ \E out \in {executeCommand(cmd, ctx, fs, pipeInput)} :
            /\ lastResult' = Result(out.output, out.exitCode)
            /\ pipeInput' = NextPipeInput(pipeline, idx, operator, out)
            /\ ctx' = out.ctx
            /\ fs' = out.fs
            /\ executed' = Append(executed, Executed(idx, cmd, pipeInput, ctx, fs, out))
            /\ idx' = idx + 1
            /\ UNCHANGED <<line, pipeline, pc, result>>
            /\ UNCHANGED notExecVars

\* PipelineBreak as `continue`: the command is skipped, the loop goes on
\* and the context records the skip as a success
PipelineSkip ==
    /\ pc = "pipeline"
    /\ idx < Len(pipeline.commands)
    /\ BreakCondition(OperatorBefore(pipeline, idx), lastResult.exitCode)
    /\ idx' = idx + 1
    /\ ctx' = [ctx EXCEPT !.exitCode = 0]
    /\ UNCHANGED <<line, pipeline, lastResult, pipeInput, pc, result, fs, executed>>
    /\ UNCHANGED notExecVars

\* an iteration that breaks out of the loop; lastResult is returned
PipelineBreak ==
    /\ pc = "pipeline"
    /\ idx < Len(pipeline.commands)
    /\ BreakCondition(OperatorBefore(pipeline, idx), lastResult.exitCode)
    /\ result' = lastResult
    /\ pc' = "done"
    /\ UNCHANGED <<line, pipeline, idx, lastResult, pipeInput, ctx, fs, executed>>
    /\ UNCHANGED notExecVars

\* the loop condition fails; lastResult is returned
PipelineReturn ==
    /\ pc = "pipeline"
    /\ ~(idx < Len(pipeline.commands))
    /\ result' = lastResult
    /\ pc' = "done"
    /\ UNCHANGED <<line, pipeline, idx, lastResult, pipeInput, ctx, fs, executed>>
    /\ UNCHANGED notExecVars

\* execute(input) is called on an executor that is not running a line
Execute ==
    /\ pc = "idle"
    /\ \E input \in Lines : \E p \in {parse(input)} :
        \/ ExecuteEmpty(input, p)
        \/ ExecuteSingle(input, p)
        \/ ExecutePipeline(input, p)

Init == ExecIdle /\ EditIdle /\ VfsIdle /\ EngineIdle /\ SessionIdle

Next ==
    \/ Execute
    \/ PipelineStep
    \/ PipelineBreak
    \/ PipelineReturn

Spec == Init /\ [][Next]_vars

\* the line editor alone: the engine's key handler calls one InputBuffer
\* method per key
EditInit ==
    /\ ExecIdle
    /\ buffer = <<>>
    /\ cursorPos = 0
    /\ history \in StartHistories
    /\ historyIndex = -1
    /\ tempBuffer = <<>>
    /\ edits = 0
    /\ last = NoCall
    /\ nav = NoNav
    /\ VfsIdle
    /\ EngineIdle
    /\ SessionIdle

EditNext ==
    \/ \E char \in Keys : insert(char)
    \/ backspace
    \/ delete
    \/ moveLeft
    \/ moveRight
    \/ moveToStart
    \/ moveToEnd
    \/ killToEnd
    \/ killToStart
    \/ deleteWordBack
    \/ historyUp
    \/ historyDown
    \/ tabComplete
    \/ submit
    \/ clear
    \/ \E text \in PasteTexts : insertText(text)

EditSpec == EditInit /\ [][EditNext]_vars

(***************************************************************************)
(* The virtual file system alone: its methods are called one after the     *)
(* other on a tree that loadFromJSON built                                 *)
(***************************************************************************)
\* how many calls of a VirtualFileSystem method the model makes in one run
MaxCalls == 2

\* the name of the i-th link of the chain of symbolic links
ChainName(i) == <<"s">> \o NatToString(i)

\* a loaded tree with a file, a directory, and symbolic links to the file,
\* to the directory and to the root
LinksTree ==
    [p \in {<<>>, <<<<"f">>>>, <<<<"d">>>>, <<<<"d">>, <<"g">>>>, <<<<"l">>>>, <<<<"k">>>>, <<<<"r">>>>} |->
        CASE p = <<>> -> DirNode
          [] p = <<<<"f">>>> -> LoadedFile(<<"x">>)
          [] p = <<<<"d">>>> -> LoadedDir
          [] p = <<<<"d">>, <<"g">>>> -> LoadedFile(<<"g">>)
          [] p = <<<<"l">>>> -> SymlinkNode(<<"f">>)
          [] p = <<<<"k">>>> -> SymlinkNode(<<"/", "d">>)
          [] OTHER -> SymlinkNode(<<"/">>)]

\* a loaded tree with a file, a symbolic link to itself, and a chain of
\* symbolic links, one longer than the hop cap, each link pointing to the
\* next and the last one to the file
ChainTree ==
    [p \in {<<>>, <<<<"f">>>>, <<<<"c">>>>} \cup {<<ChainName(i)>> : i \in 1..(MaxSymlinkDepth + 1)} |->
        IF p = <<>> THEN DirNode
        ELSE IF p = <<<<"f">>>> THEN LoadedFile(<<"x">>)
        ELSE IF p = <<<<"c">>>> THEN SymlinkNode(<<"/", "c">>)
        ELSE SymlinkNode(IF p = <<ChainName(MaxSymlinkDepth + 1)>> THEN <<"/", "f">>
                         ELSE <<"/">> \o ChainName(
                                  1 + CHOOSE i \in 1..MaxSymlinkDepth : p = <<ChainName(i)>>))]

\* a loaded tree with a directory /x/y that is also reached through the
\* symbolic link /a, and in it symbolic links with relative targets: one
\* to the file beside it and one to the file of the directory above
NestedTree ==
    [p \in {<<>>, <<<<"f">>>>, <<<<"a">>>>, <<<<"x">>>>, <<<<"x">>, <<"f">>>>, <<<<"x">>, <<"y">>>>,
            <<<<"x">>, <<"y">>, <<"g">>>>, <<<<"x">>, <<"y">>, <<"l">>>>, <<<<"x">>, <<"y">>, <<"m">>>>} |->
        CASE p \in {<<>>} -> DirNode
          [] p \in {<<<<"x">>>>, <<<<"x">>, <<"y">>>>} -> LoadedDir
          [] p = <<<<"f">>>> -> LoadedFile(<<"x">>)
          [] p = <<<<"x">>, <<"f">>>> -> LoadedFile(<<"x", "f">>)
          [] p = <<<<"x">>, <<"y">>, <<"g">>>> -> LoadedFile(<<"g">>)
          [] p = <<<<"a">>>> -> SymlinkNode(<<"/", "x", "/", "y">>)
          [] p = <<<<"x">>, <<"y">>, <<"l">>>> -> SymlinkNode(<<".", ".", "/", "f">>)
          [] OTHER -> SymlinkNode(<<"g">>)]

StartTrees == {LinksTree, ChainTree, NestedTree}

\* the paths handed to the methods that change the tree
ChangedPaths == {<<"/">>, <<"/", "f">>, <<"/", "l">>, <<"/", "r">>, <<"/", "d">>, <<"/", "_", "_", "p", "r", "o", "t", "o", "_", "_">>, <<"/", "k", "/", "n">>}

\* the paths handed to resolve and readFile
ReadPaths == {<<"/">>, <<"/", "f">>, <<"/", "l">>, <<"/", "k", "/", "g">>, <<"/", "c">>, <<"/", "s", "1">>, <<"/", "s", "2">>, <<"/", "n">>,
              <<"/", "a", "/", "l">>, <<"/", "x", "/", "y", "/", "l">>, <<"/", "a", "/", "m">>}

Contents == {<<"y">>}

\* the record kept of one call
VfsCall(name, path, content, recursive, ok, value) ==
    [name |-> name, path |-> path, content |-> content, recursive |-> recursive,
     before |-> fs, ok |-> ok, value |-> value]

\* what a call of a VirtualFileSystem method leaves alone
notVfsVars == <<line, pipeline, idx, lastResult, pipeInput, pc, result, ctx, executed,
                editVars, engineVars, sessionVars>>

\* a call that returns [ok, tree]
VfsChange(name, path, content, recursive, out) ==
    /\ calls < MaxCalls
    /\ fs' = out.tree
    /\ call' = VfsCall(name, path, content, recursive, out.ok, NullContent)
    /\ calls' = calls + 1
    /\ UNCHANGED notVfsVars

VfsWriteFile ==
    \E path \in ChangedPaths, content \in Contents :
        VfsChange("writeFile", path, content, FALSE, writeFile(fs, path, content, <<"/">>))

VfsAppendFile ==
    \E path \in ChangedPaths, content \in Contents :
        VfsChange("appendFile", path, content, FALSE, appendFile(fs, path, content, <<"/">>))

VfsMkdir ==
    \E path \in ChangedPaths, recursive \in BOOLEAN :
        VfsChange("mkdir", path, <<>>, recursive, mkdir(fs, path, <<"/">>, recursive))

VfsRm ==
    \E path \in ChangedPaths, recursive \in BOOLEAN :
        VfsChange("rm", path, <<>>, recursive, rm(fs, path, <<"/">>, recursive))

\* a call that leaves the tree alone
VfsQuery(name, path, ok, value) ==
    /\ calls < MaxCalls
    /\ call' = VfsCall(name, path, <<>>, FALSE, ok, value)
    /\ calls' = calls + 1
    /\ UNCHANGED fs
    /\ UNCHANGED notVfsVars

VfsResolve ==
    \E path \in ReadPaths :
        VfsQuery("resolve", path, resolve(fs, path, <<"/">>).found, NullContent)

VfsReadFile ==
    \E path \in ReadPaths :
        VfsQuery("readFile", path, ~readFile(fs, path, <<"/">>).isNull,
                 readFile(fs, path, <<"/">>))

\* fromJSON(toJSON()): the tree is replaced by the one its snapshot gives
VfsRestore ==
    /\ calls < MaxCalls
    /\ fs' = fromJSON(toJSON(fs))
    /\ call' = VfsCall("fromJSON", <<>>, <<>>, FALSE, TRUE, NullContent)
    /\ calls' = calls + 1
    /\ UNCHANGED notVfsVars

VfsInit ==
    /\ \E tree \in StartTrees : ExecIdleOn(tree)
    /\ EditIdle
    /\ VfsIdle
    /\ EngineIdle
    /\ SessionIdle

VfsNext ==
    \/ VfsWriteFile
    \/ VfsAppendFile
    \/ VfsMkdir
    \/ VfsRm
    \/ VfsResolve
    \/ VfsReadFile
    \/ VfsRestore

VfsSpec == VfsInit /\ [][VfsNext]_vars

(***************************************************************************)
(* TerminalEngine: handleInput, handlePaste and processCommand.  A call    *)
(* runs up to its first await; what is left of it waits in `tasks` until   *)
(* the awaited promise settles.  What the engine writes to the terminal    *)
(* and the challenge record of the context are left out.                   *)
(***************************************************************************)
\* how many times handleInput or handlePaste is called in one run
MaxInputs == 2

\* the length of the run of whitespace that starts at the k-th character
RECURSIVE SpaceRunLen(_, _)
SpaceRunLen(s, k) ==
    IF k <= Len(s) /\ s[k] \in WhiteSpace THEN 1 + SpaceRunLen(s, k + 1) ELSE 0

NoMatch == [present |-> FALSE, group |-> <<>>]

\* raw.match(/<<\s*['"]?(\w+)['"]?/), tried from the i-th character on:
\* the first group of the leftmost match
RECURSIVE HeredocMatchFrom(_, _)
HeredocMatchFrom(raw, i) ==
    IF i + 1 > Len(raw) THEN NoMatch
    ELSE IF raw[i] = "<" /\ raw[i + 1] = "<"
    THEN Bind(i + 2 + SpaceRunLen(raw, i + 2), LAMBDA j :
         Bind(IF j <= Len(raw) /\ raw[j] \in {"'", "\""} THEN j + 1 ELSE j, LAMBDA q :
             IF WordRunLen(raw, q) > 0
             THEN [present |-> TRUE, group |-> SubSeq(raw, q, q + WordRunLen(raw, q) - 1)]
             ELSE HeredocMatchFrom(raw, i + 1)))
    ELSE HeredocMatchFrom(raw, i + 1)

\* the length of the run of characters other than whitespace from the k-th on
RECURSIVE NonSpaceRunLen(_, _)
NonSpaceRunLen(s, k) ==
    IF k <= Len(s) /\ s[k] \notin WhiteSpace THEN 1 + NonSpaceRunLen(s, k + 1) ELSE 0

\* fullCommand.match(/>\s*(\S+)/), tried from the i-th character on
RECURSIVE RedirectMatchFrom(_, _)
RedirectMatchFrom(command, i) ==
    IF i > Len(command) THEN NoMatch
    ELSE IF command[i] = ">"
    THEN Bind(i + 1 + SpaceRunLen(command, i + 1), LAMBDA j :
             IF NonSpaceRunLen(command, j) > 0
             THEN [present |-> TRUE,
                   group |-> SubSeq(command, j, j + NonSpaceRunLen(command, j) - 1)]
             ELSE RedirectMatchFrom(command, i + 1))
    ELSE RedirectMatchFrom(command, i + 1)

\* exitCode?: number, in an event that carries none (an exit code is not
\* negative)
NoExitCode == -1

\* a TerminalEvent without its timestamp
Event(type, data, exitCode) == [type |-> type, data |-> data, exitCode |-> exitCode]

\* the fields of the engine and of its buffer, context and file system that
\* handleInput, handlePaste and processCommand read and write
EngineState ==
    [buffer |-> buffer, cursorPos |-> cursorPos, history |-> history,
     historyIndex |-> historyIndex, tempBuffer |-> tempBuffer, mode |-> multiLineMode, processing |-> processing,
     ctx |-> ctx, fs |-> fs, events |-> events, heredoc |-> heredoc,
     tasks |-> Len(tasks)]

\* the history kept of multi-line mode when raw is handed to processCommand
\* in state e and leaves it in state e2, started says whether a pipeline started
Noted(e, raw, e2, started) ==
    IF e.mode.on
    THEN IF raw = e.mode.delimiter
         THEN [e.heredoc EXCEPT !.state = "closed"]
         ELSE [e.heredoc EXCEPT !.lines = Append(@, raw), !.ran = @ \/ started]
    ELSE IF e2.mode.on
    THEN [state |-> "open", command |-> raw, lines |-> <<>>, ran |-> FALSE]
    ELSE NoHeredoc

\* executor.execute(raw, ctx) up to its first await: the handler of a line
\* of one command has run (the lines of this model hold one command)
ExecuteStarted(raw, c, tree) ==
    Bind(parse(raw), LAMBDA p :
        IF Len(p.commands) = 1 /\ Len(p.operators) = 0
        THEN executeCommand(p.commands[1], c, tree, NoStdin)
        ELSE Outcome(<<>>, 0, c, tree))

\* what a call that runs up to an await leaves: the state, what it waits
\* for ("none": it has returned; "return": the awaited processCommand has
\* returned; "execute": the pipeline it started is in progress) and the
\* result the pipeline will give
Waits(e, waiting, out) == [e |-> e, waiting |-> waiting, result |-> out]

\* processCommand(raw) up to its await of executor.execute
processCommand(e, raw) ==
    IF raw = <<>> THEN Waits(e, "return", Result(<<>>, 0))
    ELSE IF e.mode.on
    THEN IF raw = e.mode.delimiter
         THEN Bind(RedirectMatchFrom(e.mode.command, 1), LAMBDA redirectMatch :
              Waits([e EXCEPT
                        !.mode = NoMode,
                        !.fs = IF redirectMatch.present
                               THEN writeFile(e.fs,
                                              ctxResolvePath(e.ctx, e.fs, redirectMatch.group),
                                              Join(e.mode.lines, <<"\n">>) \o <<"\n">>,
                                              <<"/">>).tree
                               ELSE @,
                        !.events = Append(@, Event("command", e.mode.command, NoExitCode))],
                    "return", Result(<<>>, 0)))
         ELSE Waits([e EXCEPT !.mode.lines = Append(@, raw)], "return", Result(<<>>, 0))
    ELSE Bind(HeredocMatchFrom(raw, 1), LAMBDA heredocMatch :
         IF heredocMatch.present
         THEN Waits([e EXCEPT !.mode = [on |-> TRUE, delimiter |-> heredocMatch.group,
                                        lines |-> <<>>, command |-> raw]],
                    "return", Result(<<>>, 0))
         ELSE Bind(ExecuteStarted(raw, e.ctx, e.fs), LAMBDA out :
              Waits([e EXCEPT !.events = Append(@, Event("command", raw, NoExitCode)),
                              !.processing = TRUE,
                              !.ctx = out.ctx,
                              !.fs = out.fs],
                    "execute", Result(out.output, out.exitCode))))

\* processCommand(raw) on a submitted line, with the history kept
Submitted(e, raw) ==
    Bind(processCommand(e, raw), LAMBDA r :
        [r EXCEPT !.e.heredoc = Noted(e, raw, r.e, r.waiting = "execute")])

\* a call of handleInput or executePastedLines suspended at an await
Task(handler, r, data, lines) ==
    [handler |-> handler, waiting |-> r.waiting, result |-> r.result,
     data |-> data, lines |-> lines]

\* handleInput, the branch of ESC [ : the InputBuffer call made for seq,
\* which is data.slice(i + 2, i + 4), and by how much i is advanced (0 when
\* seq is none of the sequences tested for)
EscapeSequence(e, seq) ==
    IF seq = <<>> THEN [e |-> e, advance |-> 0]
    ELSE IF seq[1] = "A"
    THEN [advance |-> 2,
          e |-> IF Len(e.history) = 0 THEN e
                ELSE IF e.historyIndex = -1
                THEN [e EXCEPT !.tempBuffer = e.buffer,
                               !.historyIndex = Len(e.history) - 1,
                               !.buffer = e.history[Len(e.history)],
                               !.cursorPos = Len(e.history[Len(e.history)])]
                ELSE IF e.historyIndex > 0
                THEN [e EXCEPT !.historyIndex = @ - 1,
                               !.buffer = e.history[e.historyIndex],
                               !.cursorPos = Len(e.history[e.historyIndex])]
                ELSE e]
    ELSE IF seq[1] = "B"
    THEN [advance |-> 2,
          e |-> IF e.historyIndex = -1 THEN e
                ELSE IF e.historyIndex < Len(e.history) - 1
                THEN [e EXCEPT !.historyIndex = @ + 1,
                               !.buffer = e.history[e.historyIndex + 2],
                               !.cursorPos = Len(e.history[e.historyIndex + 2])]
                ELSE [e EXCEPT !.historyIndex = -1,
                               !.buffer = e.tempBuffer,
                               !.cursorPos = Len(e.tempBuffer)]]
    ELSE IF seq[1] = "C"
    THEN [advance |-> 2,
          e |-> IF e.cursorPos >= Len(e.buffer) THEN e ELSE [e EXCEPT !.cursorPos = @ + 1]]
    ELSE IF seq[1] = "D"
    THEN [advance |-> 2,
          e |-> IF e.cursorPos = 0 THEN e ELSE [e EXCEPT !.cursorPos = @ - 1]]
    ELSE IF seq[1] = "H"
    THEN [advance |-> 2, e |-> IF e.cursorPos = 0 THEN e ELSE [e EXCEPT !.cursorPos = 0]]
    ELSE IF seq[1] = "F"
    THEN [advance |-> 2,
          e |-> IF e.cursorPos >= Len(e.buffer) THEN e
                ELSE [e EXCEPT !.cursorPos = Len(e.buffer)]]
    ELSE IF seq = <<"3", "~">>
    THEN [advance |-> 3,
          e |-> IF e.cursorPos >= Len(e.buffer) THEN e
                ELSE [e EXCEPT !.buffer = Slice(e.buffer, 0, e.cursorPos)
                                              \o SliceFrom(e.buffer, e.cursorPos + 1)]]
    ELSE [e |-> e, advance |-> 0]

\* the for loop of handleInput from the k-th character of data on, up to
\* the await of processCommand or the end of data; the keys of this model
\* are Enter, printable characters and ESC
RECURSIVE KeysFrom(_, _, _)
KeysFrom(e, data, k) ==
    IF k > Len(data) THEN Task("handleInput", Waits(e, "none", Result(<<>>, 0)), <<>>, <<>>)
                              @@ [e |-> e]
    ELSE IF data[k] = Esc /\ k + 1 <= Len(data)
    THEN IF data[k + 1] = "["
         THEN Bind(EscapeSequence(e, Slice(data, k + 1, k + 3)), LAMBDA r :
                  KeysFrom(r.e, data, k + r.advance + 1))
         ELSE KeysFrom(e, data, k + 1)
    ELSE IF data[k] = Esc THEN KeysFrom(e, data, k + 1)
    ELSE IF data[k] \in {"\r", "\n"}
    THEN Bind(Submitted([e EXCEPT !.history = IF Trim(e.buffer) # <<>>
                                             THEN Append(@, Trim(e.buffer)) ELSE @,
                                  !.buffer = <<>>,
                                  !.cursorPos = 0,
                                  !.historyIndex = -1],
                        Trim(e.buffer)),
              LAMBDA r : Task("handleInput", r, SubSeq(data, k + 1, Len(data)), <<>>)
                             @@ [e |-> r.e])
    ELSE KeysFrom([e EXCEPT !.buffer = InsertAt(e.buffer, e.cursorPos, <<data[k]>>).buffer,
                            !.cursorPos = InsertAt(e.buffer, e.cursorPos, <<data[k]>>).cursorPos,
                            !.events = Append(@, Event("key", <<data[k]>>, NoExitCode))],
                  data, k + 1)

\* the for loop of executePastedLines from the k-th line on, up to the
\* await of processCommand or the end of the lines
RECURSIVE PastedLinesFrom(_, _, _)
PastedLinesFrom(e, lines, k) ==
    IF k > Len(lines)
    THEN Task("executePastedLines", Waits(e, "none", Result(<<>>, 0)), <<>>, <<>>)
             @@ [e |-> e]
    ELSE IF Trim(lines[k]) = <<>> THEN PastedLinesFrom(e, lines, k + 1)
    ELSE Bind(Submitted(e, Trim(lines[k])),
              LAMBDA r : Task("executePastedLines", r, <<>>, SubSeq(lines, k + 1, Len(lines)))
                             @@ [e |-> r.e])

\* the characters handlePaste removes: of [\x00-\x08\x0b\x0c\x0e-\x1f] the
\* form feed is the one a string of this model can hold
ControlChars == {"\f"}

RECURSIVE Filtered(_)
Filtered(text) ==
    IF text = <<>> THEN <<>>
    ELSE IF Head(text) \in ControlChars THEN Filtered(Tail(text))
    ELSE <<Head(text)>> \o Filtered(Tail(text))

\* filtered.split(/\r?\n/)
SplitLines(text) ==
    Bind(Split(text, "\n"), LAMBDA parts :
        [i \in 1..Len(parts) |->
            IF i < Len(parts) /\ EndsWith(parts[i], <<"\r">>)
            THEN SubSeq(parts[i], 1, Len(parts[i]) - 1)
            ELSE parts[i]])

\* the variables take the values of the state e
Become(e) ==
    /\ buffer' = e.buffer
    /\ cursorPos' = e.cursorPos
    /\ history' = e.history
    /\ historyIndex' = e.historyIndex
    /\ tempBuffer' = e.tempBuffer
    /\ multiLineMode' = e.mode
    /\ processing' = e.processing
    /\ ctx' = e.ctx
    /\ fs' = e.fs
    /\ events' = e.events
    /\ heredoc' = e.heredoc

\* what the engine's methods leave alone
notEngineVars == <<line, pipeline, idx, lastResult, pipeInput, pc, result, executed,
                   edits, last, nav, vfsVars, sessionVars>>

\* the task without the state it left
Suspended(t) == [f \in (DOMAIN t) \ {"e"} |-> t[f]]

\* the data handed to handleInput in one call
InputData == {<<"c", "a", "t", " ", "<", "<", " ", "E", " ", ">", " ", "f", "\r">>, <<"a", "\r", "\r", "E", "\r">>, <<"p", "w", "d", "\r">>, <<"z">>, <<Esc, "[", "A", "\r">>, <<Esc, "[", "5", "~">>, <<Esc, "x">>, <<"g", "r", "e", "p", " ", "(", " ", "R", "E", "A", "D", "M", "E", ".", "m", "d", "\r">>}

\* the texts handed to handlePaste
PastedTexts == {<<"p", "w", "d", "\r", "\n", "p", "w", "d">>, <<"z", "\f", "z">>}

\* a method of the engine can be called: by the code that made the last
\* call, before any continuation has run, or from a later event, when no
\* continuation is left that could run (a pipeline in progress may stay:
\* a handler may return a promise that settles later)
CanCall == turn = "caller" \/ \A i \in DOMAIN tasks : tasks[i].waiting # "return"

\* handleInput without its test of processing
handleInputWhileProcessing ==
    /\ inputs < MaxInputs
    /\ CanCall
    /\ turn' = "caller"
    /\ \E data \in InputData :
        /\ inputs' = inputs + 1
        /\ delivered' = [handler |-> "handleInput", data |-> data, dropped |-> processing,
                         before |-> EngineState]
        /\ \E t \in {KeysFrom(EngineState, data, 1)} :
               /\ Become(t.e)
               /\ tasks' = IF t.waiting = "none" THEN tasks
                           ELSE Append(tasks, Suspended(t))
    /\ UNCHANGED notEngineVars

\* handleInput(data)
handleInput ==
    /\ inputs < MaxInputs
    /\ CanCall
    /\ turn' = "caller"
    /\ \E data \in InputData :
        /\ inputs' = inputs + 1
        /\ delivered' = [handler |-> "handleInput", data |-> data, dropped |-> processing,
                         before |-> EngineState]
        /\ IF processing
           THEN UNCHANGED <<buffer, cursorPos, history, historyIndex, tempBuffer,
                            multiLineMode, processing, ctx, fs, events, heredoc, tasks>>
           ELSE \E t \in {KeysFrom(EngineState, data, 1)} :
                   /\ Become(t.e)
                   /\ tasks' = IF t.waiting = "none" THEN tasks
                               ELSE Append(tasks, Suspended(t))
    /\ UNCHANGED notEngineVars

\* handlePaste(text)
handlePaste ==
    /\ inputs < MaxInputs
    /\ CanCall
    /\ turn' = "caller"
    /\ \E text \in PastedTexts : \E lines \in {SplitLines(Filtered(text))} :
        /\ inputs' = inputs + 1
        /\ delivered' = [handler |-> "handlePaste", data |-> text, dropped |-> FALSE,
                         before |-> EngineState]
        /\ IF Len(lines) = 1
           THEN \E r \in {InsertTextFrom([buffer |-> buffer, cursorPos |-> cursorPos],
                                         lines[1], 1)} :
                   /\ buffer' = r.buffer
                   /\ cursorPos' = r.cursorPos
                   /\ events' = Append(events, Event("paste", text, NoExitCode))
                   /\ UNCHANGED <<history, historyIndex, tempBuffer, multiLineMode,
                                  processing, ctx, fs, heredoc, tasks>>
           ELSE \E t \in {PastedLinesFrom(EngineState, lines, 1)} :
                   /\ Become([t.e EXCEPT !.events = Append(@, Event("paste", text, NoExitCode))])
                   /\ tasks' = IF t.waiting = "none" THEN tasks
                               ELSE Append(tasks, Suspended(t))
    /\ UNCHANGED notEngineVars

\* tasks without its i-th entry
Without(seq, i) == SubSeq(seq, 1, i - 1) \o SubSeq(seq, i + 1, Len(seq))

\* the pipeline a task awaits has finished: processCommand goes on after
\* its await of executor.execute and returns
finishExecute ==
    /\ \E i \in DOMAIN tasks :
        /\ tasks[i].waiting = "execute"
        /\ events' = IF tasks[i].result.output # <<>>
                     THEN Append(events, Event("output", tasks[i].result.output,
                                               tasks[i].result.exitCode))
                     ELSE events
        /\ processing' = FALSE
        /\ tasks' = [tasks EXCEPT ![i].waiting = "return"]
    /\ turn' = "microtasks"
    /\ UNCHANGED <<buffer, cursorPos, history, historyIndex, tempBuffer, multiLineMode,
                   ctx, fs, heredoc, inputs, delivered>>
    /\ UNCHANGED notEngineVars

\* the processCommand a task awaits has returned: its loop goes on
resumeLoop ==
    /\ \E i \in DOMAIN tasks :
        /\ tasks[i].waiting = "return"
        /\ \E t \in {IF tasks[i].handler = "handleInput"
                     THEN KeysFrom(EngineState, tasks[i].data, 1)
                     ELSE PastedLinesFrom(EngineState, tasks[i].lines, 1)} :
            /\ Become(t.e)
            /\ tasks' = IF t.waiting = "none" THEN Without(tasks, i)
                        ELSE [tasks EXCEPT ![i] = Suspended(t)]
    /\ turn' = "microtasks"
    /\ UNCHANGED <<inputs, delivered>>
    /\ UNCHANGED notEngineVars

EngineInit == ExecIdle /\ EditIdle /\ VfsIdle /\ EngineIdle /\ SessionIdle

EngineNext ==
    \/ handleInput
    \/ handlePaste
    \/ finishExecute
    \/ resumeLoop

EngineSpec == EngineInit /\ [][EngineNext]_vars


(***************************************************************************)
(* KeystrokeRecorder and BurstDetector.  Times are in milliseconds.  An    *)
(* interval that is set fires whenever the scheduler runs its callback;    *)
(* how long that takes is left open.                                       *)
(***************************************************************************)
\* how many keys are recorded in a run that looks at bursts
MaxKeys == 31

\* how many of them come after a pause
MaxPauses == 1

\* how many keys are recorded in a run that starts and stops the recorder
MaxRecorded == 2

\* how many times start, stop or flush is called, or an interval fires
MaxRecorderCalls == 4

BURST_THRESHOLD == 50

BURST_MIN_CHARS == 30

\* cutoff = timestamp - 5000
BurstWindow == 5000

\* the time since the key before: at the threshold, or after a pause just
\* above the threshold or as long as the window
Gaps == IF pausesLeft > 0 THEN {BURST_THRESHOLD, BURST_THRESHOLD + 1, BurstWindow}
        ELSE {BURST_THRESHOLD}

\* the for loop of addKeystroke from index i (counted from 1) down:
\* burstCount
RECURSIVE BurstCountFromZero(_, _)
BurstCountFromZero(ts, i) ==
    IF i > 1 /\ ts[i] - ts[i - 1] <= BURST_THRESHOLD
    THEN 1 + BurstCountFromZero(ts, i - 1)
    ELSE 0

\* the for loop of addKeystroke from index i (counted from 1) down:
\* burstCount, which starts at 1
RECURSIVE BurstCount(_, _)
BurstCount(ts, i) ==
    IF i > 1 /\ ts[i] - ts[i - 1] <= BURST_THRESHOLD
    THEN 1 + BurstCount(ts, i - 1)
    ELSE 1

\* addKeystroke(timestamp): the timestamps it leaves and what it returns
\* (detected: the result is not null), with the window it had built
addKeystroke(ts, timestamp) ==
    Bind(SelectSeq(Append(ts, timestamp), LAMBDA t : t > timestamp - BurstWindow),
         LAMBDA kept :
        IF Len(kept) < BURST_MIN_CHARS
        THEN [NoBurst EXCEPT !.window = kept] @@ [timestamps |-> kept]
        ELSE Bind(BurstCount(kept, Len(kept)), LAMBDA burstCount :
             IF burstCount >= BURST_MIN_CHARS
             THEN [detected |-> TRUE, count |-> burstCount,
                   duration |-> timestamp - kept[Len(kept) - burstCount + 1],
                   window |-> kept, timestamps |-> <<>>]
             ELSE [NoBurst EXCEPT !.window = kept] @@ [timestamps |-> kept]))

\* the SessionEvent of a key, without its meta
KeyEvent(key, timestamp) == [type |-> "key", key |-> key, timestamp |-> timestamp]

\* the paste event recordKey adds for a burst
BurstEvent(burstResult, timestamp) ==
    [type |-> "paste",
     content |-> <<"[", "b", "u", "r", "s", "t", " ", "d", "e", "t", "e", "c", "t", "e", "d", ":", " ">> \o NatToString(burstResult.count)
                     \o <<" ", "c", "h", "a", "r", "s", " ", "i", "n", " ">> \o NatToString(burstResult.duration) \o <<"m", "s", "]">>,
     timestamp |-> timestamp, detectedBy |-> "burst"]

\* what the methods of the recorder leave alone
notRecorderVars == <<execVars, editVars, vfsVars, engineVars, replayVars, scorerVars,
                     toolVars, parserVars, challengeVars>>

\* recordKey(key, meta), gap milliseconds after the key before
recordKey ==
    /\ keysLeft > 0
    /\ keysLeft' = keysLeft - 1
    /\ \E gap \in Gaps : \E burstResult \in {addKeystroke(timestamps, now + gap)} :
        /\ now' = now + gap
        /\ pausesLeft' = IF gap > BURST_THRESHOLD THEN pausesLeft - 1 ELSE pausesLeft
        /\ timestamps' = burstResult.timestamps
        /\ recorderEvents' =
               IF burstResult.detected
               THEN recorderEvents \o <<KeyEvent("a", now + gap),
                                        BurstEvent(burstResult, now + gap)>>
               ELSE Append(recorderEvents, KeyEvent("a", now + gap))
        /\ burst' = [f \in DOMAIN NoBurst |-> burstResult[f]]
    /\ lastCall' = "recordKey"
    /\ UNCHANGED <<flushInterval, intervals, handles, flushed, callsLeft>>
    /\ UNCHANGED notRecorderVars

\* flush() that hands the batch over and keeps the events
FlushKeepsEvents ==
    IF recorderEvents = <<>> THEN UNCHANGED <<recorderEvents, flushed>>
    ELSE /\ recorderEvents' = recorderEvents
         /\ flushed' = Append(flushed, recorderEvents)

\* the body of flush()
Flush ==
    IF recorderEvents = <<>> THEN UNCHANGED <<recorderEvents, flushed>>
    ELSE /\ recorderEvents' = <<>>
         /\ flushed' = Append(flushed, recorderEvents)

\* start()
start ==
    /\ callsLeft > 0
    /\ callsLeft' = callsLeft - 1
    /\ handles' = handles + 1
    /\ flushInterval' = handles + 1
    /\ intervals' = intervals \cup {handles + 1}
    /\ lastCall' = "start"
    /\ UNCHANGED <<now, timestamps, recorderEvents, flushed, keysLeft, pausesLeft, burst>>
    /\ UNCHANGED notRecorderVars

\* stop()
stop ==
    /\ callsLeft > 0
    /\ callsLeft' = callsLeft - 1
    /\ IF flushInterval # NoInterval
       THEN /\ intervals' = intervals \ {flushInterval}
            /\ flushInterval' = NoInterval
       ELSE UNCHANGED <<intervals, flushInterval>>
    /\ Flush
    /\ lastCall' = "stop"
    /\ UNCHANGED <<now, timestamps, handles, keysLeft, pausesLeft, burst>>
    /\ UNCHANGED notRecorderVars

\* flush(), called by the owner of the recorder
flush ==
    /\ callsLeft > 0
    /\ callsLeft' = callsLeft - 1
    /\ Flush
    /\ lastCall' = "flush"
    /\ UNCHANGED <<now, timestamps, flushInterval, intervals, handles, keysLeft,
                   pausesLeft, burst>>
    /\ UNCHANGED notRecorderVars

\* an interval that start() set fires: its callback calls flush()
intervalFires ==
    /\ callsLeft > 0
    /\ callsLeft' = callsLeft - 1
    /\ intervals # {}
    /\ Flush
    /\ lastCall' = "interval"
    /\ UNCHANGED <<now, timestamps, flushInterval, intervals, handles, keysLeft,
                   pausesLeft, burst>>
    /\ UNCHANGED notRecorderVars

\* keys are recorded, some after a pause
BurstInit ==
    ExecIdle /\ EditIdle /\ VfsIdle /\ EngineIdle /\ RecorderIdle(MaxKeys, MaxPauses, 0)
        /\ NoSession

BurstNext == recordKey

BurstSpec == BurstInit /\ [][BurstNext]_vars

\* a recorder is started, used and stopped
RecorderInit ==
    ExecIdle /\ EditIdle /\ VfsIdle /\ EngineIdle
        /\ RecorderIdle(MaxRecorded, 0, MaxRecorderCalls) /\ NoSession

RecorderNext ==
    \/ start
    \/ stop
    \/ flush
    \/ intervalFires
    \/ recordKey

RecorderSpec == RecorderInit /\ [][RecorderNext]_vars

(***************************************************************************)
(* SessionReplay.  An event of the log is a record with its timestamp and  *)
(* the place it had in the array handed to the constructor.  A delay is a  *)
(* real number, kept as a fraction with a positive denominator.            *)
(***************************************************************************)
\* how many events a log has at most
MaxLog == 3

\* how many calls of the methods of a replay are made
MaxReplayCalls == 3

\* the timestamps of the events of a log
EventTimes == {0, 100, 20000}

\* the logs handed to the constructor, sorted or not
Logs ==
    UNION {{[j \in 1..k |-> [id |-> j, timestamp |-> f[j]]] : f \in [1..k -> EventTimes]} :
               k \in 0..MaxLog}

\* the speeds setSpeed is called with
Speeds == {2, 8}

\* the times seekToTime is called with
SeekTimes == {-50, 0, 50, 100, 30000}

\* where the sort puts an event among those already sorted: after every
\* event that is not later
InsertByTimestamp(sorted, e) ==
    Bind(Cardinality({j \in 1..Len(sorted) : sorted[j].timestamp <= e.timestamp}),
         LAMBDA k : SubSeq(sorted, 1, k) \o <<e>> \o SubSeq(sorted, k + 1, Len(sorted)))

\* the array left as it was given
SortSkipped(log) == log

\* events.sort((a, b) => a.timestamp - b.timestamp)
RECURSIVE SortByTimestamp(_)
SortByTimestamp(log) ==
    IF log = <<>> THEN <<>>
    ELSE InsertByTimestamp(SortByTimestamp(SubSeq(log, 1, Len(log) - 1)), log[Len(log)])

\* a / b
Quotient(a, b) == [num |-> a, den |-> b]

\* p < q
Below(p, q) == p.num * q.den < q.num * p.den

\* Math.min(p, q)
MathMin(p, q) == IF Below(q, p) THEN q ELSE p

\* the longest delay at speed 1
MaxDelay == 2000

\* the delay without the cap
DelayUncapped(event, nextEvent, s) == Quotient(nextEvent.timestamp - event.timestamp, s)

\* the delay scheduleNext computes
Delay(event, nextEvent, s) ==
    MathMin(Quotient(nextEvent.timestamp - event.timestamp, s), Quotient(MaxDelay, s))

\* the fields of the replay that its methods assign
ThisReplay ==
    [currentIndex |-> currentIndex, isPlaying |-> isPlaying, speed |-> speed,
     timer |-> timer, timeouts |-> timeouts, timeoutHandles |-> timeoutHandles,
     replayed |-> replayed, stateChanges |-> stateChanges]

\* x || y, for numbers
OrElse(x, y) == IF x = 0 THEN y ELSE x

\* events[0]?.timestamp || 0
BaseTime == IF replayEvents = <<>> THEN 0 ELSE OrElse(replayEvents[1].timestamp, 0)

\* getState()
getState(r) ==
    [currentIndex |-> r.currentIndex, isPlaying |-> r.isPlaying, speed |-> r.speed,
     startTime |-> BaseTime,
     elapsedTime |->
         (IF r.currentIndex < Len(replayEvents)
          THEN OrElse(replayEvents[r.currentIndex + 1].timestamp, BaseTime)
          ELSE BaseTime) - BaseTime]

\* notifyStateChange()
notifyStateChange(r) == [r EXCEPT !.stateChanges = Append(@, getState(r))]

\* clearTimeout(this.timer)
ClearTimer(r) == [r EXCEPT !.timeouts = {t \in @ : t.handle # r.timer}]

\* this.timer = setTimeout(() => this.scheduleNext(), delay), after the
\* event at index `after` was delivered
SetTimer(r, delay, after) ==
    [r EXCEPT !.timer = r.timeoutHandles + 1,
              !.timeoutHandles = @ + 1,
              !.timeouts = @ \cup {[handle |-> r.timeoutHandles + 1, delay |-> delay,
                                    after |-> after, speed |-> r.speed]}]

\* scheduleNext()
scheduleNext(r) ==
    IF ~r.isPlaying \/ r.currentIndex >= Len(replayEvents)
    THEN notifyStateChange([r EXCEPT !.isPlaying = FALSE])
    ELSE Bind([r EXCEPT !.replayed = Append(@, replayEvents[r.currentIndex + 1]),
                        !.currentIndex = @ + 1],
              LAMBDA d :
                  IF d.currentIndex >= Len(replayEvents)
                  THEN notifyStateChange([d EXCEPT !.isPlaying = FALSE])
                  ELSE SetTimer(d, Delay(replayEvents[d.currentIndex],
                                         replayEvents[d.currentIndex + 1], d.speed),
                                d.currentIndex - 1))

\* the replay's fields become those of r
BecomeReplay(r) ==
    /\ currentIndex' = r.currentIndex
    /\ isPlaying' = r.isPlaying
    /\ speed' = r.speed
    /\ timer' = r.timer
    /\ timeouts' = r.timeouts
    /\ timeoutHandles' = r.timeoutHandles
    /\ replayed' = r.replayed
    /\ stateChanges' = r.stateChanges

\* what the methods of the replay leave alone
notReplayVars == <<execVars, editVars, vfsVars, engineVars, recorderVars, scorerVars,
                   toolVars, parserVars, challengeVars>>

\* play()
play ==
    /\ replayCallsLeft > 0
    /\ replayCallsLeft' = replayCallsLeft - 1
    /\ BecomeReplay(scheduleNext(notifyStateChange(
           [ThisReplay EXCEPT
               !.currentIndex = IF @ >= Len(replayEvents) THEN 0 ELSE @,
               !.isPlaying = TRUE])))
    /\ UNCHANGED <<replayEvents, seek>>
    /\ UNCHANGED notReplayVars

\* pause()
pause ==
    /\ replayCallsLeft > 0
    /\ replayCallsLeft' = replayCallsLeft - 1
    /\ BecomeReplay(notifyStateChange(
           IF timer # NoTimer
           THEN [ClearTimer(ThisReplay) EXCEPT !.isPlaying = FALSE, !.timer = NoTimer]
           ELSE [ThisReplay EXCEPT !.isPlaying = FALSE]))
    /\ UNCHANGED <<replayEvents, seek>>
    /\ UNCHANGED notReplayVars

\* setSpeed(speed)
setSpeed ==
    /\ replayCallsLeft > 0
    /\ replayCallsLeft' = replayCallsLeft - 1
    /\ \E s \in Speeds :
           BecomeReplay(notifyStateChange(
               IF isPlaying
               THEN scheduleNext(IF timer # NoTimer
                                 THEN ClearTimer([ThisReplay EXCEPT !.speed = s])
                                 ELSE [ThisReplay EXCEPT !.speed = s])
               ELSE [ThisReplay EXCEPT !.speed = s]))
    /\ UNCHANGED <<replayEvents, seek>>
    /\ UNCHANGED notReplayVars

\* the record of a call of seekTo or seekToTime that leaves the replay as r
Sought(name, arg, r) ==
    [name |-> name, arg |-> arg, before |-> currentIndex, after |-> r.currentIndex,
     notified |-> Len(r.stateChanges) - Len(stateChanges)]

\* seekTo(index)
seekTo ==
    /\ replayCallsLeft > 0
    /\ replayCallsLeft' = replayCallsLeft - 1
    /\ \E index \in -1..(MaxLog + 1) :
       \E r \in {notifyStateChange(
                    [ThisReplay EXCEPT
                        !.currentIndex = Max(0, Min(index, Len(replayEvents) - 1))])} :
        /\ BecomeReplay(r)
        /\ seek' = Sought("seekTo", index, r)
    /\ UNCHANGED replayEvents
    /\ UNCHANGED notReplayVars

\* events.findIndex(e => e.timestamp >= target), -1 when there is none
FindIndex(target) ==
    Bind({j \in 1..Len(replayEvents) : replayEvents[j].timestamp >= target},
         LAMBDA hits :
             IF hits = {} THEN -1
             ELSE (CHOOSE j \in hits : \A k \in hits : j <= k) - 1)

\* seekToTime(timestamp)
seekToTime ==
    /\ replayCallsLeft > 0
    /\ replayCallsLeft' = replayCallsLeft - 1
    /\ \E timestamp \in SeekTimes :
       \E r \in {notifyStateChange(
                    Bind(FindIndex(BaseTime + timestamp), LAMBDA found :
                        IF found # -1 THEN [ThisReplay EXCEPT !.currentIndex = found]
                        ELSE ThisReplay))} :
        /\ BecomeReplay(r)
        /\ seek' = Sought("seekToTime", timestamp, r)
    /\ UNCHANGED replayEvents
    /\ UNCHANGED notReplayVars

\* a timeout that scheduleNext set expires: its callback calls scheduleNext
timerFires ==
    /\ \E t \in timeouts :
           BecomeReplay(scheduleNext([ThisReplay EXCEPT !.timeouts = @ \ {t}]))
    /\ UNCHANGED <<replayEvents, replayCallsLeft, seek>>
    /\ UNCHANGED notReplayVars

\* a replay of one of the logs, on which play() is called and nothing else
PlayInit ==
    ExecIdle /\ EditIdle /\ VfsIdle /\ EngineIdle /\ RecorderIdle(0, 0, 0)
        /\ ScorerIdle(<<>>, <<>>, 0, 0) /\ ToolsIdle(0) /\ ParserIdle /\ ChallengeIdle(0)
        /\ \E log \in Logs : ReplayIdle(SortByTimestamp(log), 1)

PlayNext ==
    \/ play
    \/ timerFires

\* a timeout that is set and not cleared expires
PlaySpec == PlayInit /\ [][PlayNext]_vars /\ WF_vars(timerFires)

\* the logs whose replay is steered: one with a gap that is capped, given out
\* of order; one that begins after time 0 and holds two events of one time
SteeredLogs ==
    {<<>>,
     <<[id |-> 1, timestamp |-> 20000], [id |-> 2, timestamp |-> 0],
       [id |-> 3, timestamp |-> 100]>>,
     <<[id |-> 1, timestamp |-> 100], [id |-> 2, timestamp |-> 100],
       [id |-> 3, timestamp |-> 20000]>>}

\* a replay that is played, paused, sped up and sought in
ReplayInit ==
    ExecIdle /\ EditIdle /\ VfsIdle /\ EngineIdle /\ RecorderIdle(0, 0, 0)
        /\ ScorerIdle(<<>>, <<>>, 0, 0) /\ ToolsIdle(0) /\ ParserIdle /\ ChallengeIdle(0)
        /\ \E log \in SteeredLogs : ReplayIdle(SortByTimestamp(log), MaxReplayCalls)

ReplayNext ==
    \/ play
    \/ pause
    \/ setSpeed
    \/ seekTo
    \/ seekToTime
    \/ timerFires

ReplaySpec == ReplayInit /\ [][ReplayNext]_vars

(***************************************************************************)
(* PatternAnalyzer, PasteDetector and IntegrityScorer.  A key is one       *)
(* character, or the name Backspace.  Numbers that are not whole are kept  *)
(* as fractions; the logs of the model avoid the values at which the       *)
(* rounding of floating-point division could matter.                       *)
(***************************************************************************)
\* the characters U+0008 and U+007F as keys
Bs == "BS"

Del == "DEL"

\* key.length
KeyLength(key) == IF key = "Backspace" THEN 9 ELSE 1

\* e.key === '\b' || e.key === 'Backspace' || e.key.charCodeAt(0) === 127
IsBackspace(key) == key = Bs \/ key = "Backspace" \/ key = Del

\* how many elements of the array pass the test
CountOf(s, Test(_)) == Cardinality({j \in 1..Len(s) : Test(s[j])})

\* Math.round of num / den, neither negative
Round(num, den) == (2 * num + den) \div (2 * den)

\* calculateAverageWPM(keyEvents)
calculateAverageWPM(keyEvents) ==
    IF Len(keyEvents) < 2 THEN 0
    ELSE Bind(keyEvents[Len(keyEvents)].timestamp - keyEvents[1].timestamp,
              LAMBDA span :
                  IF span = 0 THEN 0
                  ELSE Round(CountOf(keyEvents,
                                     LAMBDA e : KeyLength(e.key) = 1 /\ e.key # Bs) * 60000,
                             5 * span))

\* calculateMaxWPM(keyEvents): the windows of 10 keystrokes that take some
\* time, the shortest of which gives the greatest speed
calculateMaxWPM(keyEvents) ==
    IF Len(keyEvents) < 10 THEN 0
    ELSE Bind({keyEvents[i + 10].timestamp - keyEvents[i].timestamp :
                   i \in 1..(Len(keyEvents) - 10)} \ {0},
              LAMBDA spans :
                  IF spans = {} THEN 0
                  ELSE Round(2 * 60000, CHOOSE d \in spans : \A o \in spans : d <= o))

\* calculateBackspaceRatio(keyEvents)
calculateBackspaceRatio(keyEvents) ==
    IF Len(keyEvents) = 0 THEN Quotient(0, 1)
    ELSE Quotient(CountOf(keyEvents, LAMBDA e : IsBackspace(e.key)), Len(keyEvents))

IDLE_THRESHOLD == 10000

IdleBurstThreshold == 100

BURST_MIN_LENGTH == 20

\* the inner loop of detectIdleBursts from index i (counted from 0): burstLen,
\* how far the first j is at which the loop breaks or ends
BurstLenFrom(keyEvents, i) ==
    Bind({j \in i..(Len(keyEvents) - 2) :
              keyEvents[j + 2].timestamp - keyEvents[j + 1].timestamp >= IdleBurstThreshold}
             \cup {Len(keyEvents) - 1},
         LAMBDA ends : (CHOOSE j \in ends : \A o \in ends : j <= o) - i)

\* detectIdleBursts(keyEvents)
detectIdleBursts(keyEvents) ==
    Cardinality({i \in 1..(Len(keyEvents) - 1) :
        /\ keyEvents[i + 1].timestamp - keyEvents[i].timestamp >= IDLE_THRESHOLD
        /\ BurstLenFrom(keyEvents, i) >= BURST_MIN_LENGTH})

HIGH_SPEED_WPM == 200

SUSTAINED_CHARS == 50

\* the window of detectSustainedHighSpeed at index i (counted from 0) takes
\* some time and its speed is above HIGH_SPEED_WPM
IsHighSpeed(keyEvents, i) ==
    Bind(keyEvents[i + SUSTAINED_CHARS + 1].timestamp - keyEvents[i + 1].timestamp,
         LAMBDA span :
             span > 0 /\ Below(Quotient(HIGH_SPEED_WPM, 1),
                               Quotient((SUSTAINED_CHARS \div 5) * 60000, span)))

\* the loop of detectSustainedHighSpeed from index i (counted from 0): it goes
\* on to the next window that is counted, and from there to the window
\* SUSTAINED_CHARS + 1 further
RECURSIVE HighSpeedFrom(_, _, _)
HighSpeedFrom(keyEvents, i, count) ==
    Bind({j \in i..(Len(keyEvents) - SUSTAINED_CHARS - 1) : IsHighSpeed(keyEvents, j)},
         LAMBDA counted :
             IF counted = {} THEN count
             ELSE HighSpeedFrom(keyEvents,
                                (CHOOSE j \in counted : \A o \in counted : j <= o)
                                    + SUSTAINED_CHARS + 1,
                                count + 1))

\* detectSustainedHighSpeed(keyEvents)
detectSustainedHighSpeed(keyEvents) == HighSpeedFrom(keyEvents, 0, 0)

SEGMENT_SIZE == 100

\* less than 2% backspaces
MAX_BACKSPACE_RATIO == Quotient(2, 100)

\* detectPerfectCode(keyEvents)
detectPerfectCode(keyEvents) ==
    Cardinality({i \in 0..(Len(keyEvents) - SEGMENT_SIZE - 1) :
        /\ i % SEGMENT_SIZE = 0
        /\ Below(Quotient(CountOf(SubSeq(keyEvents, i + 1, i + SEGMENT_SIZE),
                                  LAMBDA e : IsBackspace(e.key)), SEGMENT_SIZE),
                 MAX_BACKSPACE_RATIO)})

\* PatternAnalyzer.analyze(events)
analyze(log) ==
    Bind(SelectSeq(log, LAMBDA e : e.type = "key"), LAMBDA keyEvents :
        [averageWPM |-> calculateAverageWPM(keyEvents),
         maxWPM |-> calculateMaxWPM(keyEvents),
         backspaceRatio |-> calculateBackspaceRatio(keyEvents),
         idleBurstCount |-> detectIdleBursts(keyEvents),
         tabAwayCount |-> CountOf(log, LAMBDA e : e.type = "focus_change" /\ ~e.focused),
         sustainedHighSpeedSegments |-> detectSustainedHighSpeed(keyEvents),
         perfectCodeSegments |-> detectPerfectCode(keyEvents)])

\* low costs as much as medium
DeductionsLowAsMedium == [high |-> 30, medium |-> 15, low |-> 15]

SEVERITY_DEDUCTIONS == [high |-> 30, medium |-> 15, low |-> 5]

\* an IntegrityFlag
Flag(severity, type, description) ==
    [severity |-> severity, type |-> type, description |-> description,
     deduction |-> SEVERITY_DEDUCTIONS[severity]]

\* flags.push(flag); score -= flag.deduction, when the test holds
Flagged(st, test, flag) ==
    IF test THEN [flags |-> Append(st.flags, flag), score |-> st.score - flag.deduction]
    ELSE st

\* generateSummary(score, flags)
generateSummary(score, flags) ==
    IF score >= 90 THEN <<"C", "l", "e", "a", "n", " ", "s", "e", "s", "s", "i", "o", "n", " ", "-", " ", "n", "o", " ", "s", "i", "g", "n", "i", "f", "i", "c", "a", "n", "t", " ", "i", "n", "t", "e", "g", "r", "i", "t", "y", " ", "c", "o", "n", "c", "e", "r", "n", "s", ".">>
    ELSE IF score >= 70
    THEN <<"M", "i", "n", "o", "r", " ", "c", "o", "n", "c", "e", "r", "n", "s", " ", "d", "e", "t", "e", "c", "t", "e", "d", ":", " ">> \o Join([j \in 1..Len(flags) |-> flags[j].type], <<",", " ">>)
             \o <<".", " ", "R", "e", "v", "i", "e", "w", " ", "r", "e", "c", "o", "m", "m", "e", "n", "d", "e", "d", ".">>
    ELSE IF score >= 50 THEN <<"M", "u", "l", "t", "i", "p", "l", "e", " ", "i", "n", "t", "e", "g", "r", "i", "t", "y", " ", "f", "l", "a", "g", "s", " ", "r", "a", "i", "s", "e", "d", ".", " ", "C", "a", "r", "e", "f", "u", "l", " ", "r", "e", "v", "i", "e", "w", " ", "r", "e", "q", "u", "i", "r", "e", "d", ".">>
    ELSE <<"S", "i", "g", "n", "i", "f", "i", "c", "a", "n", "t", " ", "i", "n", "t", "e", "g", "r", "i", "t", "y", " ", "c", "o", "n", "c", "e", "r", "n", "s", ".", " ", "S", "e", "s", "s", "i", "o", "n", " ", "s", "h", "o", "u", "l", "d", " ", "b", "e", " ", "r", "e", "v", "i", "e", "w", "e", "d", " ", "c", "a", "r", "e", "f", "u", "l", "l", "y", " ", "b", "e", "f", "o", "r", "e", " ", "s", "c", "o", "r", "i", "n", "g", ".">>

\* pasteDetector.getPasteCount()
getPasteCount(detected) == Len(detected)

\* the reduce of getTotalPastedChars from index j
RECURSIVE PastedCharsFrom(_, _, _)
PastedCharsFrom(detected, j, sum) ==
    IF j > Len(detected) THEN sum
    ELSE PastedCharsFrom(detected, j + 1, sum + detected[j].charCount)

\* pasteDetector.getTotalPastedChars()
getTotalPastedChars(detected) == PastedCharsFrom(detected, 1, 0)

\* the flag for the pastes, if any
PasteFlags(st, pasteCount, pastedChars) ==
    IF pasteCount > 5
    THEN Flagged(st, TRUE,
             Flag("high", <<"e", "x", "c", "e", "s", "s", "i", "v", "e", "_", "p", "a", "s", "t", "e">>,
                  NatToString(pasteCount) \o <<" ", "p", "a", "s", "t", "e", " ", "e", "v", "e", "n", "t", "s", " ", "d", "e", "t", "e", "c", "t", "e", "d", " ", "(">>
                      \o NatToString(pastedChars) \o <<" ", "t", "o", "t", "a", "l", " ", "c", "h", "a", "r", "a", "c", "t", "e", "r", "s", ")">>))
    ELSE Flagged(st, pasteCount > 2,
             Flag("medium", <<"m", "o", "d", "e", "r", "a", "t", "e", "_", "p", "a", "s", "t", "e">>,
                  NatToString(pasteCount) \o <<" ", "p", "a", "s", "t", "e", " ", "e", "v", "e", "n", "t", "s", " ", "d", "e", "t", "e", "c", "t", "e", "d">>))

\* the flags for the typing patterns
PatternFlags(st, patterns) ==
    Flagged(Flagged(Flagged(Flagged(st,
        patterns.sustainedHighSpeedSegments > 0,
        Flag("medium", <<"s", "p", "e", "e", "d", "_", "a", "n", "o", "m", "a", "l", "y">>,
             NatToString(patterns.sustainedHighSpeedSegments)
                 \o <<" ", "s", "e", "g", "m", "e", "n", "t", "s", " ", "w", "i", "t", "h", " ", "s", "u", "s", "t", "a", "i", "n", "e", "d", " ", ">", "2", "0", "0", " ", "W", "P", "M", " ", "t", "y", "p", "i", "n", "g", " ", "s", "p", "e", "e", "d">>)),
        patterns.perfectCodeSegments > 2,
        Flag("medium", <<"p", "e", "r", "f", "e", "c", "t", "_", "c", "o", "d", "e">>,
             NatToString(patterns.perfectCodeSegments)
                 \o <<" ", "c", "o", "d", "e", " ", "s", "e", "g", "m", "e", "n", "t", "s", " ", "w", "i", "t", "h", " ", "n", "e", "a", "r", "-", "z", "e", "r", "o", " ", "b", "a", "c", "k", "s", "p", "a", "c", "e", " ", "r", "a", "t", "i", "o", " ", "(", ">", "1", "0", "0", " ", "c", "h", "a", "r", "s", ")">>)),
        patterns.idleBurstCount > 3,
        Flag("low", <<"i", "d", "l", "e", "_", "b", "u", "r", "s", "t">>,
             NatToString(patterns.idleBurstCount)
                 \o <<" ", "i", "d", "l", "e", "-", "t", "h", "e", "n", "-", "b", "u", "r", "s", "t", " ", "t", "y", "p", "i", "n", "g", " ", "p", "a", "t", "t", "e", "r", "n", "s", " ", "d", "e", "t", "e", "c", "t", "e", "d">>)),
        patterns.tabAwayCount > 10,
        Flag("low", <<"f", "r", "e", "q", "u", "e", "n", "t", "_", "t", "a", "b", "_", "a", "w", "a", "y">>,
             <<"T", "a", "b", " ", "a", "w", "a", "y", " ", "d", "e", "t", "e", "c", "t", "e", "d", " ">> \o NatToString(patterns.tabAwayCount) \o <<" ", "t", "i", "m", "e", "s">>))

\* generateReport(events, pasteDetector), pasteDetector holding `detected`
generateReport(log, detected) ==
    Bind(analyze(log), LAMBDA patterns :
    Bind(PatternFlags(PasteFlags([flags |-> <<>>, score |-> 100],
                                 getPasteCount(detected), getTotalPastedChars(detected)),
                      patterns), LAMBDA st :
    Bind(SelectSeq(log, LAMBDA e : e.type = "key"), LAMBDA keyEvents :
    Bind(Max(0, Min(100, st.score)), LAMBDA score :
        [score |-> score,
         flags |-> st.flags,
         patterns |-> patterns,
         summary |-> generateSummary(score, st.flags),
         pasteCount |-> getPasteCount(detected),
         totalPastedChars |-> getTotalPastedChars(detected),
         tabAwayCount |-> patterns.tabAwayCount,
         hintsUsed |-> CountOf(log, LAMBDA e : e.type = "hint_used"),
         totalKeystrokes |-> Len(keyEvents),
         sessionDuration |->
             IF Len(keyEvents) >= 2
             THEN Quotient(keyEvents[Len(keyEvents)].timestamp - keyEvents[1].timestamp,
                           1000)
             ELSE Quotient(0, 1)]))))

\* a PasteEvent of recordClipboardPaste
ClipboardPaste(content, timestamp) ==
    [content |-> content, timestamp |-> timestamp, detectedBy |-> "clipboard_api",
     charCount |-> Len(content)]

\* a PasteEvent of recordBurstPaste
BurstPaste(charCount, timestamp) ==
    [content |-> <<"[", "b", "u", "r", "s", "t", ":", " ">> \o NatToString(charCount) \o <<" ", "c", "h", "a", "r", "s", "]">>,
     timestamp |-> timestamp, detectedBy |-> "burst", charCount |-> charCount]

\* what the methods of the detector and the scorer leave alone
notScorerVars == <<execVars, editVars, vfsVars, engineVars, recorderVars, replayVars,
                   toolVars, parserVars, challengeVars>>

\* pasteDetector.recordClipboardPaste(content)
recordClipboardPaste ==
    /\ detectionsLeft > 0
    /\ detectionsLeft' = detectionsLeft - 1
    /\ pasteEvents' = Append(pasteEvents, ClipboardPaste(<<"l", "s", " ", "-", "l", "a">>, now))
    /\ UNCHANGED <<scoredEvents, reports, reportsLeft>>
    /\ UNCHANGED notScorerVars

\* pasteDetector.recordBurstPaste(charCount)
recordBurstPaste ==
    /\ detectionsLeft > 0
    /\ detectionsLeft' = detectionsLeft - 1
    /\ pasteEvents' = Append(pasteEvents, BurstPaste(BURST_MIN_CHARS, now))
    /\ UNCHANGED <<scoredEvents, reports, reportsLeft>>
    /\ UNCHANGED notScorerVars

\* scorer.generateReport(events, pasteDetector) is called
report ==
    /\ reportsLeft > 0
    /\ reportsLeft' = reportsLeft - 1
    /\ reports' = Append(reports, generateReport(scoredEvents, pasteEvents))
    /\ UNCHANGED <<scoredEvents, pasteEvents, detectionsLeft>>
    /\ UNCHANGED notScorerVars

\* how many pastes the detector has recorded at most before the first report
MaxDetected == 6

\* how many reports are asked for
MaxReports == 2

\* how many pastes are recorded after that
MaxDetections == 1

\* n keys, the first at time `first`, each `gap` ms after the one before;
\* every `every`th key is Backspace when `every` is not 0
KeyRun(n, first, gap, every) ==
    [j \in 1..n |-> KeyEvent(IF every > 0 /\ j % every = 0 THEN "Backspace" ELSE "a",
                             first + (j - 1) * gap)]

\* one key, then k times: an idle time of 10 s and 21 keys 50 ms apart
IdleBursts(k) ==
    [j \in 1..(1 + 21 * k) |->
        KeyEvent("a",
                 IF j = 1 THEN 0
                 ELSE (((j - 2) \div 21) + 1) * 10000 + ((j - 2) \div 21) * 1000
                          + ((j - 2) % 21) * 50)]

\* the window loses the focus n times and gets it back
TabAways(n) ==
    [j \in 1..(2 * n) |-> [type |-> "focus_change", focused |-> (j % 2 = 0),
                           timestamp |-> j * 1000]]

\* the events of the log, dt ms later
Later(log, dt) == [j \in 1..Len(log) |-> [log[j] EXCEPT !.timestamp = @ + dt]]

\* the logs that are scored: around the threshold of every flag
ScoredLogs ==
    {<<>>,
     KeyRun(301, 0, 10, 0),
     KeyRun(301, 0, 1000, 0),
     KeyRun(300, 0, 1000, 0),
     KeyRun(301, 0, 10, 50),
     IdleBursts(4),
     IdleBursts(3),
     TabAways(11),
     TabAways(10),
     KeyRun(301, 0, 10, 0) \o Later(IdleBursts(4), 100000) \o TabAways(11)
         \o <<[type |-> "hint_used", hintId |-> <<"h", "1">>, timestamp |-> 200000]>>,
     KeyRun(BURST_MIN_CHARS, 0, BURST_THRESHOLD, 0)
         \o <<BurstEvent([count |-> BURST_MIN_CHARS,
                          duration |-> (BURST_MIN_CHARS - 1) * BURST_THRESHOLD],
                         (BURST_MIN_CHARS - 1) * BURST_THRESHOLD)>>}

\* the detector after n pastes from the clipboard
Detected(n) == [j \in 1..n |-> ClipboardPaste(<<"l", "s", " ", "-", "l", "a">>, 0)]

\* a log and a detector are handed to the scorer
ScorerInit ==
    ExecIdle /\ EditIdle /\ VfsIdle /\ EngineIdle /\ RecorderIdle(0, 0, 0)
        /\ ReplayIdle(<<>>, 0) /\ ToolsIdle(0) /\ ParserIdle /\ ChallengeIdle(0)
        /\ \E log \in ScoredLogs : \E n \in 0..MaxDetected :
               ScorerIdle(log, Detected(n), MaxReports, MaxDetections)

ScorerNext ==
    \/ recordClipboardPaste
    \/ recordBurstPaste
    \/ report

ScorerSpec == ScorerInit /\ [][ScorerNext]_vars

(***************************************************************************)
(* The git and docker commands.  gitState and dockerState are objects of   *)
(* their modules: every engine of the process registers the same handlers, *)
(* which read and write these objects.  Of the subcommands, the handlers   *)
(* of the model know those that the lines of the model use and the         *)
(* default case.                                                           *)
(***************************************************************************)
\* the characters U+0060, U+2714 as elements of a string
Grave == "GRAVE"

CheckMark == "CHECK"

\* cmd.args[k] (counted from 0), undefined when there is none
ArgAt(cmd, k) == IF k < Len(cmd.args) THEN cmd.args[k + 1] ELSE Undefined

\* what a git or docker handler leaves behind
ToolOutcome(output, exitCode, git, docker) ==
    [output |-> output, exitCode |-> exitCode, git |-> git, docker |-> docker]

\* gitBranch(cmd)
gitBranch(cmd, git, docker) ==
    IF FlagIsTrue(cmd.flags, <<"a">>) \/ Includes(cmd.rawArgs, <<"-", "a">>)
    THEN ToolOutcome(<<"*", " ">> \o <<Esc>> \o <<"[", "3", "2", "m">> \o git.branch \o <<Esc>>
                         \o <<"[", "0", "m", "\n", " ", " ", "r", "e", "m", "o", "t", "e", "s", "/", "o", "r", "i", "g", "i", "n", "/", "m", "a", "i", "n", "\n", " ", " ", "r", "e", "m", "o", "t", "e", "s", "/", "o", "r", "i", "g", "i", "n", "/", "f", "e", "a", "t", "u", "r", "e", "/", "g", "p", "s", "-", "t", "r", "a", "c", "k", "i", "n", "g", "\n", " ", " ", "r", "e", "m", "o", "t", "e", "s", "/", "o", "r", "i", "g", "i", "n", "/", "f", "i", "x", "/", "r", "e", "d", "i", "s", "-", "t", "i", "m", "e", "o", "u", "t">>,
                     0, git, docker)
    ELSE IF Len(cmd.args) > 1 THEN ToolOutcome(<<>>, 0, git, docker)
    ELSE ToolOutcome(<<"*", " ">> \o <<Esc>> \o <<"[", "3", "2", "m">> \o git.branch \o <<Esc>> \o <<"[", "0", "m">>,
                     0, git, docker)

\* gitCheckout(cmd)
gitCheckout(cmd, git, docker) ==
    Bind(ArgAt(cmd, 1), LAMBDA target :
        IF ~TruthyString(target)
        THEN ToolOutcome(<<"e", "r", "r", "o", "r", ":", " ", "s", "w", "i", "t", "c", "h", " ">> \o <<Grave>> \o <<"'", " ", "r", "e", "q", "u", "i", "r", "e", "s", " ", "a", " ", "v", "a", "l", "u", "e">>, 1,
                         git, docker)
        ELSE IF FlagIsTrue(cmd.flags, <<"b">>)
        THEN ToolOutcome(<<"S", "w", "i", "t", "c", "h", "e", "d", " ", "t", "o", " ", "a", " ", "n", "e", "w", " ", "b", "r", "a", "n", "c", "h", " ", "'">> \o target \o <<"'">>, 0,
                         [git EXCEPT !.branch = target], docker)
        ELSE ToolOutcome(<<"S", "w", "i", "t", "c", "h", "e", "d", " ", "t", "o", " ", "b", "r", "a", "n", "c", "h", " ", "'">> \o target \o <<"'">>, 0,
                         [git EXCEPT !.branch = target], docker))

\* cmd.flags['m'] as the string a template or || makes of it; empty when
\* the flag is not set
FlagText(flags, name) ==
    IF name \notin DOMAIN flags THEN <<>>
    ELSE IF flags[name].isTrue THEN <<"t", "r", "u", "e">>
    ELSE flags[name].value

\* the message gitCommit extracts
CommitMessage(cmd) ==
    IF FlagTruthy(cmd.flags, <<"m">>) THEN FlagText(cmd.flags, <<"m">>)
    ELSE Bind({k \in 1..Len(cmd.args) : cmd.args[k] = <<"-", "m">>}, LAMBDA found :
             IF found = {} THEN <<>>
             ELSE Bind(CHOOSE k \in found : \A o \in found : k <= o, LAMBDA mIdx :
                      IF mIdx + 1 <= Len(cmd.args) THEN cmd.args[mIdx + 1] ELSE <<>>))

\* gitCommit(cmd); hash is what Math.random().toString(16).slice(2, 9) gives
\* and date what new Date().toISOString() gives
gitCommit(cmd, git, docker, hash, date) ==
    IF ~FlagTruthy(cmd.flags, <<"m">>) /\ ~Includes(cmd.rawArgs, <<"-", "m">>)
    THEN ToolOutcome(<<"A", "b", "o", "r", "t", "i", "n", "g", " ", "c", "o", "m", "m", "i", "t", " ", "d", "u", "e", " ", "t", "o", " ", "e", "m", "p", "t", "y", " ", "c", "o", "m", "m", "i", "t", " ", "m", "e", "s", "s", "a", "g", "e", ".">>, 1, git, docker)
    ELSE Bind(IF CommitMessage(cmd) = <<>> THEN <<"u", "p", "d", "a", "t", "e">> ELSE CommitMessage(cmd),
              LAMBDA message :
         Bind(IF Len(git.stagedFiles) = 0 THEN 1 ELSE Len(git.stagedFiles),
              LAMBDA fileCount :
             ToolOutcome(<<"[">> \o git.branch \o <<" ">> \o hash \o <<"]", " ">> \o message \o <<"\n", " ">>
                             \o NatToString(fileCount) \o <<" ", "f", "i", "l", "e">>
                             \o (IF fileCount > 1 THEN <<"s">> ELSE <<>>) \o <<" ", "c", "h", "a", "n", "g", "e", "d">>,
                         0,
                         [git EXCEPT
                             !.commits = <<[hash |-> hash, message |-> message,
                                            author |-> <<"c", "a", "n", "d", "i", "d", "a", "t", "e", "@", "f", "l", "e", "e", "t", "c", "o", "r", "e", ".", "i", "o">>,
                                            date |-> date]>> \o @,
                             !.stagedFiles = <<>>],
                         docker)))

\* handleGit(cmd, ctx)
handleGit(cmd, git, docker, hash, date) ==
    Bind(ArgAt(cmd, 0), LAMBDA subcommand :
        CASE subcommand = <<"b", "r", "a", "n", "c", "h">> -> gitBranch(cmd, git, docker)
          [] subcommand = <<"c", "h", "e", "c", "k", "o", "u", "t">> -> gitCheckout(cmd, git, docker)
          [] subcommand = <<"c", "o", "m", "m", "i", "t">> -> gitCommit(cmd, git, docker, hash, date)
          [] subcommand = <<"p", "u", "s", "h">> ->
                 ToolOutcome(<<"T", "o", " ", "g", "i", "t", "h", "u", "b", ".", "c", "o", "m", ":", "f", "l", "e", "e", "t", "c", "o", "r", "e", "/", "f", "l", "e", "e", "t", "c", "o", "r", "e", "-", "a", "p", "i", ".", "g", "i", "t", "\n", " ", " ", " ">>
                                 \o git.commits[1].hash \o <<".", ".", "H", "E", "A", "D", " ", " ">> \o git.branch
                                 \o <<" ", "-", ">", " ">> \o git.branch, 0, git, docker)
          [] OTHER ->
                 ToolOutcome(<<"g", "i", "t", ":", " ", "'">> \o subcommand
                                 \o <<"'", " ", "i", "s", " ", "n", "o", "t", " ", "a", " ", "g", "i", "t", " ", "c", "o", "m", "m", "a", "n", "d", ".", " ", "S", "e", "e", " ", "'", "g", "i", "t", " ", "-", "-", "h", "e", "l", "p", "'", ".">>, 1,
                             git, docker))

\* a ContainerState of initDockerState
Container(name, image, id) ==
    [name |-> name, image |-> image, status |-> "stopped", ports |-> <<>>,
     created |-> <<"2", " ", "d", "a", "y", "s", " ", "a", "g", "o">>, id |-> id]

\* initDockerState()
initDockerState(docker) ==
    IF docker.initialized THEN docker
    ELSE [initialized |-> TRUE,
          containers |->
              <<Container(<<"f", "l", "e", "e", "t", "c", "o", "r", "e", "-", "a", "p", "i">>, <<"f", "l", "e", "e", "t", "c", "o", "r", "e", "-", "a", "p", "i", ":", "l", "a", "t", "e", "s", "t">>, <<"a", "1", "b", "2", "c", "3", "d", "4", "e", "5", "f", "6">>),
                Container(<<"f", "l", "e", "e", "t", "c", "o", "r", "e", "-", "d", "b">>, <<"p", "o", "s", "t", "g", "r", "e", "s", ":", "1", "5", "-", "a", "l", "p", "i", "n", "e">>, <<"b", "2", "c", "3", "d", "4", "e", "5", "f", "6", "a", "1">>),
                Container(<<"f", "l", "e", "e", "t", "c", "o", "r", "e", "-", "c", "a", "c", "h", "e">>, <<"r", "e", "d", "i", "s", ":", "7", "-", "a", "l", "p", "i", "n", "e">>, <<"c", "3", "d", "4", "e", "5", "f", "6", "a", "1", "b", "2">>)>>]

\* the place of the container in the Map, 0 when containers.get(name) is
\* undefined
ContainerAt(docker, name) ==
    Bind({k \in 1..Len(docker.containers) : docker.containers[k].name = name},
         LAMBDA found : IF found = {} THEN 0 ELSE CHOOSE k \in found : TRUE)

\* updatePorts(container)
updatePorts(container) ==
    [container EXCEPT !.ports =
        CASE container.name = <<"f", "l", "e", "e", "t", "c", "o", "r", "e", "-", "a", "p", "i">> -> <<"0", ".", "0", ".", "0", ".", "0", ":", "3", "0", "0", "0", "-", ">", "3", "0", "0", "0", "/", "t", "c", "p">>
          [] container.name = <<"f", "l", "e", "e", "t", "c", "o", "r", "e", "-", "d", "b">> -> <<"0", ".", "0", ".", "0", ".", "0", ":", "5", "4", "3", "2", "-", ">", "5", "4", "3", "2", "/", "t", "c", "p">>
          [] container.name = <<"f", "l", "e", "e", "t", "c", "o", "r", "e", "-", "c", "a", "c", "h", "e">> -> <<"0", ".", "0", ".", "0", ".", "0", ":", "6", "3", "7", "9", "-", ">", "6", "3", "7", "9", "/", "t", "c", "p">>
          [] OTHER -> <<>>]

\* the container running, with its ports
Started(container) == updatePorts([container EXCEPT !.status = "running"])

\* the container stopped
Stopped(container) == [container EXCEPT !.status = "stopped", !.ports = <<>>]

\* dockerStart(cmd)
dockerStart(cmd, git, docker) ==
    Bind(ArgAt(cmd, 1), LAMBDA containerName :
        IF ~TruthyString(containerName)
        THEN ToolOutcome(<<"d", "o", "c", "k", "e", "r", " ", "s", "t", "a", "r", "t", ":", " ", "r", "e", "q", "u", "i", "r", "e", "s", " ", "a", "t", " ", "l", "e", "a", "s", "t", " ", "1", " ", "a", "r", "g", "u", "m", "e", "n", "t">>, 1, git, docker)
        ELSE Bind(ContainerAt(docker, containerName), LAMBDA k :
                 IF k = 0
                 THEN ToolOutcome(<<"E", "r", "r", "o", "r", ":", " ", "N", "o", " ", "s", "u", "c", "h", " ", "c", "o", "n", "t", "a", "i", "n", "e", "r", ":", " ">> \o containerName, 1,
                                  git, docker)
                 ELSE ToolOutcome(containerName, 0, git,
                                  [docker EXCEPT !.containers[k] = Started(@)])))

\* dockerStop(cmd)
dockerStop(cmd, git, docker) ==
    Bind(ArgAt(cmd, 1), LAMBDA containerName :
        IF ~TruthyString(containerName)
        THEN ToolOutcome(<<"d", "o", "c", "k", "e", "r", " ", "s", "t", "o", "p", ":", " ", "r", "e", "q", "u", "i", "r", "e", "s", " ", "a", "t", " ", "l", "e", "a", "s", "t", " ", "1", " ", "a", "r", "g", "u", "m", "e", "n", "t">>, 1, git, docker)
        ELSE Bind(ContainerAt(docker, containerName), LAMBDA k :
                 IF k = 0
                 THEN ToolOutcome(<<"E", "r", "r", "o", "r", ":", " ", "N", "o", " ", "s", "u", "c", "h", " ", "c", "o", "n", "t", "a", "i", "n", "e", "r", ":", " ">> \o containerName, 1,
                                  git, docker)
                 ELSE ToolOutcome(containerName, 0, git,
                                  [docker EXCEPT !.containers[k] = Stopped(@)])))

\* what dockerExec answers for the command run in a running container
ExecAnswer(container, execCmd) ==
    IF (Includes(execCmd, <<"p", "s", "q", "l">>) \/ Includes(execCmd, <<"p", "g", "_", "i", "s", "r", "e", "a", "d", "y">>))
          /\ container.name = <<"f", "l", "e", "e", "t", "c", "o", "r", "e", "-", "d", "b">>
    THEN IF Includes(execCmd, <<"p", "g", "_", "i", "s", "r", "e", "a", "d", "y">>)
         THEN Result(<<"/", "v", "a", "r", "/", "r", "u", "n", "/", "p", "o", "s", "t", "g", "r", "e", "s", "q", "l", ":", "5", "4", "3", "2", " ", "-", " ", "a", "c", "c", "e", "p", "t", "i", "n", "g", " ", "c", "o", "n", "n", "e", "c", "t", "i", "o", "n", "s">>, 0)
         ELSE Result(<<"p", "s", "q", "l", " ", "(", "1", "5", ".", "5", ")", "\n", "T", "y", "p", "e", " ", "\"", "h", "e", "l", "p", "\"", " ", "f", "o", "r", " ", "h", "e", "l", "p", ".", "\n", "\n", "f", "l", "e", "e", "t", "c", "o", "r", "e", "=", "#">>, 0)
    ELSE IF Includes(execCmd, <<"r", "e", "d", "i", "s", "-", "c", "l", "i">>) /\ container.name = <<"f", "l", "e", "e", "t", "c", "o", "r", "e", "-", "c", "a", "c", "h", "e">>
    THEN IF Includes(execCmd, <<"p", "i", "n", "g">>) THEN Result(<<"P", "O", "N", "G">>, 0)
         ELSE Result(<<"1", "2", "7", ".", "0", ".", "0", ".", "1", ":", "6", "3", "7", "9", ">">>, 0)
    ELSE Result(<<"O", "C", "I", " ", "r", "u", "n", "t", "i", "m", "e", " ", "e", "x", "e", "c", " ", "f", "a", "i", "l", "e", "d", ":", " ", "e", "x", "e", "c", ":", " ", "\"">> \o execCmd
                    \o <<"\"", ":", " ", "e", "x", "e", "c", "u", "t", "a", "b", "l", "e", " ", "f", "i", "l", "e", " ", "n", "o", "t", " ", "f", "o", "u", "n", "d", " ", "i", "n", " ", "$", "P", "A", "T", "H">>, 1)

\* dockerExec(cmd, ctx)
dockerExec(cmd, git, docker) ==
    Bind({k \in 2..Len(cmd.args) : ~StartsWith(cmd.args[k], <<"-">>)}, LAMBDA found :
        IF found = {}
        THEN ToolOutcome(<<"d", "o", "c", "k", "e", "r", " ", "e", "x", "e", "c", ":", " ", "r", "e", "q", "u", "i", "r", "e", "s", " ", "a", "t", " ", "l", "e", "a", "s", "t", " ", "2", " ", "a", "r", "g", "u", "m", "e", "n", "t", "s">>, 1, git, docker)
        ELSE Bind(CHOOSE k \in found : \A o \in found : k <= o, LAMBDA containerIdx :
             Bind(ContainerAt(docker, cmd.args[containerIdx]), LAMBDA k :
                 IF k = 0
                 THEN ToolOutcome(<<"E", "r", "r", "o", "r", ":", " ", "N", "o", " ", "s", "u", "c", "h", " ", "c", "o", "n", "t", "a", "i", "n", "e", "r", ":", " ">> \o cmd.args[containerIdx],
                                  1, git, docker)
                 ELSE IF docker.containers[k].status # "running"
                 THEN ToolOutcome(<<"E", "r", "r", "o", "r", ":", " ", "C", "o", "n", "t", "a", "i", "n", "e", "r", " ">> \o cmd.args[containerIdx]
                                      \o <<" ", "i", "s", " ", "n", "o", "t", " ", "r", "u", "n", "n", "i", "n", "g">>, 1, git, docker)
                 ELSE Bind(ExecAnswer(docker.containers[k],
                                      Join(SubSeq(cmd.args, containerIdx + 1,
                                                  Len(cmd.args)), <<" ">>)),
                           LAMBDA r : ToolOutcome(r.output, r.exitCode, git, docker)))))

\* the line handleDockerCompose prints for a container
ComposeLine(container, what) ==
    <<Esc>> \o <<"[", "3", "2", "m", " ">> \o <<CheckMark>> \o <<" ">> \o <<Esc>> \o <<"[", "0", "m", "C", "o", "n", "t", "a", "i", "n", "e", "r", " ">>
        \o container.name \o <<" ", " ">> \o <<Esc>> \o <<"[", "3", "2", "m">> \o what \o <<Esc>> \o <<"[", "0", "m">>

\* handleDockerCompose(cmd, ctx), after initDockerState()
handleDockerCompose(cmd, git, docker) ==
    Bind(ArgAt(cmd, 0), LAMBDA subcommand :
        CASE subcommand = <<"u", "p">> ->
                 ToolOutcome(<<Esc>> \o <<"[", "1", "m", "N", "e", "t", "w", "o", "r", "k", " ", "f", "l", "e", "e", "t", "c", "o", "r", "e", "_", "d", "e", "f", "a", "u", "l", "t", " ", " ", "C", "r", "e", "a", "t", "e", "d">> \o <<Esc>>
                                 \o <<"[", "0", "m", "\n">>
                                 \o Join([k \in 1..Len(docker.containers) |->
                                             ComposeLine(docker.containers[k], <<"S", "t", "a", "r", "t", "e", "d">>)],
                                         <<"\n">>),
                             0, git,
                             [docker EXCEPT !.containers =
                                 [k \in 1..Len(@) |-> Started(@[k])]])
          [] subcommand = <<"d", "o", "w", "n">> ->
                 ToolOutcome(Join([k \in 1..Len(docker.containers) |->
                                      ComposeLine(docker.containers[k], <<"S", "t", "o", "p", "p", "e", "d">>)],
                                  <<"\n">>)
                                 \o <<"\n">> \o <<Esc>> \o <<"[", "1", "m", "N", "e", "t", "w", "o", "r", "k", " ", "f", "l", "e", "e", "t", "c", "o", "r", "e", "_", "d", "e", "f", "a", "u", "l", "t", " ", " ", "R", "e", "m", "o", "v", "e", "d">>
                                 \o <<Esc>> \o <<"[", "0", "m">>,
                             0, git,
                             [docker EXCEPT !.containers =
                                 [k \in 1..Len(@) |-> Stopped(@[k])]])
          [] OTHER ->
                 ToolOutcome(<<"d", "o", "c", "k", "e", "r", "-", "c", "o", "m", "p", "o", "s", "e", ":", " ", "'">> \o subcommand
                                 \o <<"'", " ", "i", "s", " ", "n", "o", "t", " ", "a", " ", "c", "o", "m", "m", "a", "n", "d", ".", "\n", "S", "e", "e", " ", "'", "d", "o", "c", "k", "e", "r", "-", "c", "o", "m", "p", "o", "s", "e", " ", "-", "-", "h", "e", "l", "p", "'">>, 1,
                             git, docker))

\* handleDocker(cmd, ctx), after initDockerState()
handleDocker(cmd, git, docker) ==
    Bind(ArgAt(cmd, 0), LAMBDA subcommand :
        CASE subcommand = <<"s", "t", "a", "r", "t">> -> dockerStart(cmd, git, docker)
          [] subcommand = <<"s", "t", "o", "p">> -> dockerStop(cmd, git, docker)
          [] subcommand = <<"e", "x", "e", "c">> -> dockerExec(cmd, git, docker)
          [] subcommand = <<"c", "o", "m", "p", "o", "s", "e">> ->
                 handleDockerCompose([cmd EXCEPT !.args = Tail(@)], git, docker)
          [] OTHER ->
                 ToolOutcome(<<"d", "o", "c", "k", "e", "r", ":", " ", "'">> \o subcommand
                                 \o <<"'", " ", "i", "s", " ", "n", "o", "t", " ", "a", " ", "d", "o", "c", "k", "e", "r", " ", "c", "o", "m", "m", "a", "n", "d", ".", "\n", "S", "e", "e", " ", "'", "d", "o", "c", "k", "e", "r", " ", "-", "-", "h", "e", "l", "p", "'">>, 1,
                             git, docker))

\* the handler the registry of any engine holds for the command
RunTool(cmd, git, docker, hash, date) ==
    CASE cmd.command = <<"g", "i", "t">> -> handleGit(cmd, git, docker, hash, date)
      [] cmd.command = <<"d", "o", "c", "k", "e", "r">> -> handleDocker(cmd, git, initDockerState(docker))
      [] cmd.command = <<"d", "o", "c", "k", "e", "r", "-", "c", "o", "m", "p", "o", "s", "e">> ->
             handleDockerCompose(cmd, git, initDockerState(docker))

\* how many git and docker commands are run
MaxToolRuns == 3

\* the lines the engines run
ToolLines ==
    {<<"g", "i", "t", " ", "b", "r", "a", "n", "c", "h">>, <<"g", "i", "t", " ", "c", "h", "e", "c", "k", "o", "u", "t", " ", "d", "e", "v">>, <<"g", "i", "t", " ", "c", "o", "m", "m", "i", "t", " ", "-", "m", " ", "f", "i", "x">>, <<"g", "i", "t", " ", "p", "u", "s", "h">>, <<"g", "i", "t", " ", "b", "o", "g", "u", "s">>,
     <<"d", "o", "c", "k", "e", "r", " ", "s", "t", "a", "r", "t", " ", "f", "l", "e", "e", "t", "c", "o", "r", "e", "-", "c", "a", "c", "h", "e">>, <<"d", "o", "c", "k", "e", "r", " ", "s", "t", "o", "p", " ", "f", "l", "e", "e", "t", "c", "o", "r", "e", "-", "c", "a", "c", "h", "e">>,
     <<"d", "o", "c", "k", "e", "r", " ", "e", "x", "e", "c", " ", "f", "l", "e", "e", "t", "c", "o", "r", "e", "-", "c", "a", "c", "h", "e", " ", "r", "e", "d", "i", "s", "-", "c", "l", "i", " ", "p", "i", "n", "g">>, <<"d", "o", "c", "k", "e", "r", "-", "c", "o", "m", "p", "o", "s", "e", " ", "u", "p">>,
     <<"d", "o", "c", "k", "e", "r", " ", "c", "o", "m", "p", "o", "s", "e", " ", "d", "o", "w", "n">>, <<"d", "o", "c", "k", "e", "r", " ", "b", "o", "g", "u", "s">>}

\* what the steps of the git and docker commands leave alone
notToolVars == <<execVars, editVars, vfsVars, engineVars, recorderVars, replayVars,
                 scorerVars, parserVars, challengeVars>>

\* an engine executes a line that is one git or docker command: executeCommand
\* calls the handler its registry holds
runTool ==
    /\ toolRunsLeft > 0
    /\ toolRunsLeft' = toolRunsLeft - 1
    /\ \E e \in Engines, input \in ToolLines :
       \E cmd \in {parse(input).commands[1]} :
       \E hash \in {<<"1", "c", "0", "f", "f", "e", "e">>}, date \in {<<"2", "0", "2", "4", "-", "0", "1", "-", "1", "5", "T", "0", "9", ":", "0", "0", ":", "0", "0", ".", "0", "0", "0", "Z">>} :
       \E r \in {RunTool(cmd, gitState, dockerState, hash, date)} :
       \E own \in {RunTool(cmd, alone[e].git, alone[e].docker, hash, date)} :
        /\ gitState' = r.git
        /\ dockerState' = r.docker
        /\ alone' = [alone EXCEPT ![e] = [git |-> own.git, docker |-> own.docker]]
        /\ toolRun' = [engine |-> e, line |-> input,
                       result |-> Result(r.output, r.exitCode),
                       alone |-> Result(own.output, own.exitCode)]
    /\ UNCHANGED notToolVars

\* two engines of one process run git and docker commands
ToolsInit ==
    ExecIdle /\ EditIdle /\ VfsIdle /\ EngineIdle /\ RecorderIdle(0, 0, 0)
        /\ ReplayIdle(<<>>, 0) /\ ScorerIdle(<<>>, <<>>, 0, 0) /\ ToolsIdle(MaxToolRuns) /\ ParserIdle /\ ChallengeIdle(0)

ToolsNext == runTool

ToolsSpec == ToolsInit /\ [][ToolsNext]_vars

(***************************************************************************)
(* CommandParser.parse on the lines of a small alphabet                    *)
(***************************************************************************)
\* the longest line handed to parse
MaxLineLen == 4

\* a letter, the blank, the characters of the operators, the quotes and
\* the backslash
LineChars == {"a", " ", "|", "&", ";", "'", "\"", "\\"}

ParseInputs == UNION {[1..n -> LineChars] : n \in 0..MaxLineLen}

notParserVars == <<execVars, editVars, vfsVars, engineVars, recorderVars, replayVars,
                   scorerVars, toolVars, challengeVars>>

\* parser.parse(input)
parseLine ==
    /\ ~parsed.called
    /\ parsed' = Bind(parse(parseInput), LAMBDA p :
                     [called |-> TRUE, commands |-> p.commands,
                      operators |-> p.operators])
    /\ UNCHANGED <<parseInput, notParserVars>>

ParseInit ==
    /\ ExecIdle /\ EditIdle /\ VfsIdle /\ EngineIdle /\ RecorderIdle(0, 0, 0)
    /\ ReplayIdle(<<>>, 0) /\ ScorerIdle(<<>>, <<>>, 0, 0)
    /\ gitState = InitialGitState /\ dockerState = InitialDockerState
    /\ alone = [e \in Engines |-> [git |-> InitialGitState, docker |-> InitialDockerState]]
    /\ toolRun = NoToolRun /\ toolRunsLeft = 0
    /\ ChallengeIdle(0)
    /\ parseInput \in ParseInputs
    /\ parsed = NotParsed

ParseNext == parseLine

ParseSpec == ParseInit /\ [][ParseNext]_vars

(***************************************************************************)
(* The challenge commands: status, hint, submit and next-level.  Of the    *)
(* levels the model keeps the objectives and the hints with their ids and  *)
(* seniorities, of the results the exit code; the texts and the times      *)
(* (startTime, levelStartTime) are left out.                               *)
(***************************************************************************)
SENIORITY_ORDER == <<"junior", "mid", "senior", "lead", "principal">>

\* SENIORITY_ORDER.indexOf(s)
seniorityLevel(s) ==
    Bind({k \in 1..Len(SENIORITY_ORDER) : SENIORITY_ORDER[k] = s}, LAMBDA found :
        IF found = {} THEN -1 ELSE (CHOOSE k \in found : TRUE) - 1)

Objective(id, seniorityMin) == [id |-> id, seniorityMin |-> seniorityMin]

Hint(id, objectiveId, seniorityMax) ==
    [id |-> id, objectiveId |-> objectiveId, seniorityMax |-> seniorityMax]

LEVELS ==
    <<[objectives |-> <<Objective(<<"l", "1", "-", "e", "x", "p", "l", "o", "r", "e">>, "junior"),
                        Objective(<<"l", "1", "-", "r", "e", "a", "d", "m", "e">>, "junior"),
                        Objective(<<"l", "1", "-", "d", "o", "c", "k", "e", "r", "-", "u", "p">>, "junior"),
                        Objective(<<"l", "1", "-", "v", "e", "r", "i", "f", "y">>, "junior"),
                        Objective(<<"l", "1", "-", "l", "o", "g", "s">>, "mid"),
                        Objective(<<"l", "1", "-", "d", "e", "b", "u", "g", "-", "r", "e", "d", "i", "s">>, "senior"),
                        Objective(<<"l", "1", "-", "f", "i", "x", "-", "c", "o", "m", "p", "o", "s", "e">>, "senior")>>,
       hints |-> <<Hint(<<"h", "1", "-", "1">>, <<"l", "1", "-", "e", "x", "p", "l", "o", "r", "e">>, "mid"),
                   Hint(<<"h", "1", "-", "2">>, <<"l", "1", "-", "r", "e", "a", "d", "m", "e">>, "mid"),
                   Hint(<<"h", "1", "-", "3">>, <<"l", "1", "-", "d", "o", "c", "k", "e", "r", "-", "u", "p">>, "junior"),
                   Hint(<<"h", "1", "-", "4">>, <<"l", "1", "-", "v", "e", "r", "i", "f", "y">>, "junior"),
                   Hint(<<"h", "1", "-", "5">>, <<"l", "1", "-", "l", "o", "g", "s">>, "mid")>>],
      [objectives |-> <<Objective(<<"l", "2", "-", "l", "i", "s", "t">>, "junior"),
                        Objective(<<"l", "2", "-", "c", "r", "e", "a", "t", "e">>, "junior"),
                        Objective(<<"l", "2", "-", "f", "i", "l", "t", "e", "r">>, "mid"),
                        Objective(<<"l", "2", "-", "p", "a", "g", "i", "n", "a", "t", "i", "o", "n">>, "mid"),
                        Objective(<<"l", "2", "-", "a", "u", "t", "h">>, "senior"),
                        Objective(<<"l", "2", "-", "r", "a", "t", "e", "-", "l", "i", "m", "i", "t">>, "senior"),
                        Objective(<<"l", "2", "-", "v", "e", "r", "s", "i", "o", "n", "i", "n", "g">>, "lead")>>,
       hints |-> <<Hint(<<"h", "2", "-", "1">>, <<"l", "2", "-", "l", "i", "s", "t">>, "junior"),
                   Hint(<<"h", "2", "-", "2">>, <<"l", "2", "-", "c", "r", "e", "a", "t", "e">>, "junior"),
                   Hint(<<"h", "2", "-", "3">>, <<"l", "2", "-", "f", "i", "l", "t", "e", "r">>, "mid")>>],
      [objectives |-> <<Objective(<<"l", "3", "-", "q", "u", "e", "r", "y">>, "junior"),
                        Objective(<<"l", "3", "-", "m", "i", "g", "r", "a", "t", "i", "o", "n">>, "mid"),
                        Objective(<<"l", "3", "-", "o", "p", "t", "i", "m", "i", "z", "e">>, "senior"),
                        Objective(<<"l", "3", "-", "c", "a", "c", "h", "i", "n", "g">>, "senior"),
                        Objective(<<"l", "3", "-", "p", "i", "p", "e", "l", "i", "n", "e">>, "lead")>>,
       hints |-> <<Hint(<<"h", "3", "-", "1">>, <<"l", "3", "-", "q", "u", "e", "r", "y">>, "junior"),
                   Hint(<<"h", "3", "-", "2">>, <<"l", "3", "-", "m", "i", "g", "r", "a", "t", "i", "o", "n">>, "mid")>>],
      [objectives |-> <<Objective(<<"l", "4", "-", "a", "d", "r">>, "senior"),
                        Objective(<<"l", "4", "-", "s", "c", "a", "l", "i", "n", "g">>, "lead"),
                        Objective(<<"l", "4", "-", "b", "u", "d", "g", "e", "t">>, "principal"),
                        Objective(<<"l", "4", "-", "t", "e", "a", "m">>, "principal"),
                        Objective(<<"l", "4", "-", "s", "l", "a">>, "principal")>>,
       hints |-> <<Hint(<<"h", "4", "-", "1">>, <<"l", "4", "-", "a", "d", "r">>, "senior")>>]>>

\* array.includes(v)
ArrayIncludes(array, v) == \E k \in 1..Len(array) : array[k] = v

\* the exit code a handler returns and the challenge it leaves
ChallengeOutcome(exitCode, ch) == [exitCode |-> exitCode, challenge |-> ch]

\* levelData.objectives.filter(o => seniorityLevel(o.seniorityMin) <= userSeniority)
ApplicableObjectives(level, seniority) ==
    SelectSeq(LEVELS[level].objectives,
              LAMBDA o : seniorityLevel(o.seniorityMin) <= seniorityLevel(seniority))

\* those of them that are in completedObjectives
CompletedObjectives(ch, level) ==
    SelectSeq(ApplicableObjectives(level, ch.seniority),
              LAMBDA o : ArrayIncludes(ch.completedObjectives, o.id))

\* handleStatus(_cmd, ctx)
handleStatus(cmd, ch) == ChallengeOutcome(0, ch)

\* handleHint(cmd, ctx)
handleHint(cmd, ch) ==
    IF ch.currentLevel \notin DOMAIN LEVELS THEN ChallengeOutcome(0, ch)
    ELSE Bind(SelectSeq(LEVELS[ch.currentLevel].hints,
                        LAMBDA h : /\ seniorityLevel(ch.seniority)
                                         <= seniorityLevel(h.seniorityMax)
                                   /\ ~ArrayIncludes(ch.hintsUsed, h.id)),
              LAMBDA availableHints :
         Bind(ArgAt(cmd, 0), LAMBDA targetObj :
             IF TruthyString(targetObj)
             THEN Bind(SelectSeq(availableHints, LAMBDA h : h.objectiveId = targetObj),
                       LAMBDA hints :
                      IF hints # <<>>
                      THEN ChallengeOutcome(0, [ch EXCEPT !.hintsUsed = Append(@, hints[1].id)])
                      ELSE ChallengeOutcome(0, ch))
             ELSE IF Len(availableHints) = 0 THEN ChallengeOutcome(0, ch)
             ELSE ChallengeOutcome(0, [ch EXCEPT !.hintsUsed =
                                                    Append(@, availableHints[1].id)])))

\* handleSubmit(cmd, ctx)
handleSubmit(cmd, ch) ==
    Bind(ArgAt(cmd, 0), LAMBDA objectiveId :
        IF ~TruthyString(objectiveId) THEN ChallengeOutcome(1, ch)
        ELSE IF ch.currentLevel \notin DOMAIN LEVELS THEN ChallengeOutcome(1, ch)
        ELSE IF ~\E k \in 1..Len(LEVELS[ch.currentLevel].objectives) :
                     LEVELS[ch.currentLevel].objectives[k].id = objectiveId
        THEN ChallengeOutcome(1, ch)
        ELSE IF ArrayIncludes(ch.completedObjectives, objectiveId)
        THEN ChallengeOutcome(0, ch)
        ELSE ChallengeOutcome(0, [ch EXCEPT !.completedObjectives =
                                               Append(@, objectiveId)]))

\* handleNextLevel without the test of the objectives
nextLevelUnchecked(cmd, ch) ==
    IF ch.currentLevel \notin DOMAIN LEVELS THEN ChallengeOutcome(0, ch)
    ELSE IF ch.currentLevel >= Len(LEVELS) THEN ChallengeOutcome(0, ch)
    ELSE ChallengeOutcome(0, [ch EXCEPT !.currentLevel = @ + 1])

\* handleNextLevel(_cmd, ctx)
handleNextLevel(cmd, ch) ==
    IF ch.currentLevel \notin DOMAIN LEVELS THEN ChallengeOutcome(0, ch)
    ELSE IF Len(CompletedObjectives(ch, ch.currentLevel))
                < Len(ApplicableObjectives(ch.currentLevel, ch.seniority))
    THEN ChallengeOutcome(1, ch)
    ELSE IF ch.currentLevel >= Len(LEVELS) THEN ChallengeOutcome(0, ch)
    ELSE ChallengeOutcome(0, [ch EXCEPT !.currentLevel = @ + 1])

\* the handler registerChallengeCommands registers for the command
RunChallenge(cmd, ch) ==
    CASE cmd.command = <<"s", "t", "a", "t", "u", "s">> -> handleStatus(cmd, ch)
      [] cmd.command = <<"h", "i", "n", "t">> -> handleHint(cmd, ch)
      [] cmd.command = <<"s", "u", "b", "m", "i", "t">> -> handleSubmit(cmd, ch)
      [] cmd.command = <<"n", "e", "x", "t", "-", "l", "e", "v", "e", "l">> -> handleNextLevel(cmd, ch)

\* how many challenge commands are run
MaxChallengeCmds == 3

\* the seniorities of the sessions
Seniorities == {"junior", "senior"}

\* the lines that submit the objectives of a seniority, level after level,
\* each level followed by next-level
RECURSIVE CompletingRun(_, _)
CompletingRun(seniority, level) ==
    IF level > Len(LEVELS) THEN <<>>
    ELSE Bind(ApplicableObjectives(level, seniority), LAMBDA objectives :
             [k \in 1..Len(objectives) |-> <<"s", "u", "b", "m", "i", "t", " ">> \o objectives[k].id]
                 \o <<<<"n", "e", "x", "t", "-", "l", "e", "v", "e", "l">>>> \o CompletingRun(seniority, level + 1))

\* the challenge after the lines were run
RECURSIVE AfterLines(_, _)
AfterLines(ch, lines) ==
    IF lines = <<>> THEN ch
    ELSE Bind(RunChallenge(parse(Head(lines)).commands[1], ch).challenge,
              LAMBDA next : AfterLines(next, Tail(lines)))

\* the challenges the session is in while it runs the lines of CompletingRun
SteeredChallenges(seniority) ==
    {AfterLines(NewChallenge(seniority), SubSeq(CompletingRun(seniority, 1), 1, k)) :
         k \in 0..Len(CompletingRun(seniority, 1))}

\* the lines the session runs
ChallengeLines ==
    {<<"s", "t", "a", "t", "u", "s">>, <<"h", "i", "n", "t">>, <<"h", "i", "n", "t", " ", "l", "1", "-", "l", "o", "g", "s">>, <<"n", "e", "x", "t", "-", "l", "e", "v", "e", "l">>, <<"s", "u", "b", "m", "i", "t">>, <<"s", "u", "b", "m", "i", "t", " ", "n", "o", "t", "h", "i", "n", "g">>,
     <<"s", "u", "b", "m", "i", "t", " ", "l", "1", "-", "v", "e", "r", "i", "f", "y">>, <<"s", "u", "b", "m", "i", "t", " ", "l", "1", "-", "l", "o", "g", "s">>, <<"s", "u", "b", "m", "i", "t", " ", "l", "1", "-", "f", "i", "x", "-", "c", "o", "m", "p", "o", "s", "e">>, <<"s", "u", "b", "m", "i", "t", " ", "l", "2", "-", "c", "r", "e", "a", "t", "e">>,
     <<"s", "u", "b", "m", "i", "t", " ", "l", "2", "-", "a", "u", "t", "h">>, <<"s", "u", "b", "m", "i", "t", " ", "l", "3", "-", "q", "u", "e", "r", "y">>, <<"s", "u", "b", "m", "i", "t", " ", "l", "3", "-", "c", "a", "c", "h", "i", "n", "g">>, <<"s", "u", "b", "m", "i", "t", " ", "l", "4", "-", "a", "d", "r">>,
     <<"s", "u", "b", "m", "i", "t", " ", "l", "4", "-", "s", "l", "a">>}

notChallengeVars == <<execVars, editVars, vfsVars, engineVars, recorderVars, replayVars,
                      scorerVars, toolVars, parserVars>>

\* the engine executes a line that is one challenge command
runChallenge ==
    /\ challengeCmdsLeft > 0
    /\ challengeCmdsLeft' = challengeCmdsLeft - 1
    /\ \E input \in ChallengeLines :
       \E r \in {RunChallenge(parse(input).commands[1], challenge)} :
        /\ challenge' = r.challenge
        /\ challengeCmd' = [line |-> input, before |-> challenge,
                            exitCode |-> r.exitCode]
    /\ UNCHANGED notChallengeVars

\* checkObjectiveCompletion(raw, exitCode) after a command that is not a
\* challenge command: LevelEvaluator.evaluate returns the rules of the
\* current level that are not completed and that the command fulfils; which
\* rule a command fulfils is an input of the model, one rule at a time
checkObjectiveCompletion ==
    /\ challengeCmdsLeft > 0
    /\ challengeCmdsLeft' = challengeCmdsLeft - 1
    /\ challenge.currentLevel \in DOMAIN LEVELS
    /\ \E k \in 1..Len(LEVELS[challenge.currentLevel].objectives) :
       \E id \in {LEVELS[challenge.currentLevel].objectives[k].id} :
        /\ ~ArrayIncludes(challenge.completedObjectives, id)
        /\ challenge' = [challenge EXCEPT !.completedObjectives = Append(@, id)]
        /\ challengeCmd' = [line |-> <<"c", "a", "t", " ", "R", "E", "A", "D", "M", "E", ".", "m", "d">>, before |-> challenge,
                            exitCode |-> 0]
    /\ UNCHANGED notChallengeVars

\* a session of some seniority, somewhere on its way through the levels
ChallengeInit ==
    /\ ExecIdle /\ EditIdle /\ VfsIdle /\ EngineIdle /\ RecorderIdle(0, 0, 0)
    /\ ReplayIdle(<<>>, 0) /\ ScorerIdle(<<>>, <<>>, 0, 0)
    /\ gitState = InitialGitState /\ dockerState = InitialDockerState
    /\ alone = [e \in Engines |-> [git |-> InitialGitState, docker |-> InitialDockerState]]
    /\ toolRun = NoToolRun /\ toolRunsLeft = 0
    /\ ParserIdle
    /\ \E seniority \in Seniorities : challenge \in SteeredChallenges(seniority)
    /\ challengeCmd = NoChallengeCmd
    /\ challengeCmdsLeft = MaxChallengeCmds

ChallengeNext == runChallenge \/ checkObjectiveCompletion

ChallengeSpec == ChallengeInit /\ [][ChallengeNext]_vars

(***************************************************************************)
(* Properties of the pipeline executor                                     *)
(***************************************************************************)
\* the spec's rule for the operator that follows a command with exit code e
RunsNext(op, e) ==
    \/ op \in {";", "|"}
    \/ op = "&&" /\ e = 0
    \/ op = "||" /\ e # 0

\* the commands run so far are the first commands of the pipeline, in order
ExecutedInOrder ==
    \A k \in 1..Len(executed) :
        /\ executed[k].index = k - 1
        /\ k <= Len(pipeline.commands)
        /\ executed[k].cmd = pipeline.commands[k]

\* C1: once the executor has finished a line, for every command k of the
\* pipeline that was executed, with exit code e, and that is followed by an
\* operator op and a command k+1: command k+1 was executed iff op is ; or |,
\* or op is && and e = 0, or op is || and e # 0.
C1_NextCommandRunsIff ==
    pc = "done" =>
        /\ ExecutedInOrder
        /\ \A k \in 1..Len(executed) :
            k < Len(pipeline.commands) =>
                (k + 1 <= Len(executed)
                    <=> RunsNext(pipeline.operators[k], executed[k].exitCode))

\* a finished line of three commands: the second ran because the first
\* failed before ||, the third did not because the second failed before &&
C1_Witness ==
    /\ pc = "done"
    /\ Len(pipeline.commands) = 3
    /\ Len(executed) = 2
    /\ pipeline.operators = <<"||", "&&">>
    /\ executed[1].exitCode # 0
    /\ executed[2].exitCode # 0

\* C2: every executed command k receives as stdin exactly the output of
\* command k-1 when the operator between them is |, and no stdin when it is
\* the first command or follows ; && or ||; the returned output is that of
\* the last executed command.
C2_StdinChaining ==
    pc = "done" =>
        /\ \A k \in 1..Len(executed) :
            IF k > 1 /\ pipeline.operators[k - 1] = "|"
            THEN executed[k].stdin = Stdin(executed[k - 1].output)
            ELSE ~Truthy(executed[k].stdin)
        /\ executed # <<>> => result.output = executed[Len(executed)].output

\* C3: when a command has been skipped because of && or ||, the context's
\* exit code is the one the last executed command left, no later command of
\* the pipeline has been executed, and the pipeline returns the result of the
\* last command that ran.
C3_SkipEndsPipeline ==
    (pc = "done" /\ Len(executed) < Len(pipeline.commands)) =>
        /\ ExecutedInOrder
        /\ executed # <<>>
        /\ BreakCondition(pipeline.operators[Len(executed)],
                          executed[Len(executed)].exitCode)
        /\ ctx.exitCode = executed[Len(executed)].ctxExitCode
        /\ result = Result(executed[Len(executed)].output,
                           executed[Len(executed)].exitCode)

\* a line whose second command was skipped with two more commands after it
C3_Witness ==
    /\ pc = "done"
    /\ Len(pipeline.commands) = 4
    /\ Len(executed) = 1
    /\ pipeline.operators[1] = "&&"
    /\ executed[1].exitCode = 1
    /\ ctx.exitCode = 1

\* C4: the line `false && echo should-not-appear ; true && echo yes` runs
\* false, true and echo yes, not the first echo, and returns yes with exit
\* code 0.
C4_SemicolonAfterShortCircuit ==
    (pc = "done" /\ line = ShortCircuitLine) =>
        /\ result.output \in {<<"y", "e", "s">>, <<"y", "e", "s", "\n">>}
        /\ result.exitCode = 0
        /\ [k \in 1..Len(executed) |-> executed[k].index] = <<0, 2, 3>>

\* a witness of the short-circuit line: it has finished
C4_Witness ==
    /\ pc = "done"
    /\ line = ShortCircuitLine
    /\ Len(executed) = 1

\* the command reached its handler, which returned a result
RanHandler(cmd) ==
    /\ cmd.command # <<>>
    /\ ~IsAssignment(cmd.command)
    /\ registryHas(cmd.command)

\* the tree as the k-th executed command left it
FsAfter(k) == IF k < Len(executed) THEN executed[k + 1].fsBefore ELSE fs

\* f names an entry whose parent directory exists and which is not itself
\* a directory
Writable(tree, f) ==
    LET parts == resolveParts(f, <<"/">>) IN
    /\ parts # <<>>
    /\ Bind(resolve(tree, PathString(SubSeq(parts, 1, Len(parts) - 1)), <<"/">>),
            LAMBDA parent :
                /\ parent.found
                /\ tree[parent.at].type = "directory"
                /\ Append(parent.at, parts[Len(parts)]) \in DOMAIN tree
                       => tree[Append(parent.at, parts[Len(parts)])].type # "directory")

\* what f holds once `output` has been redirected into it
Redirected(tree, f, append, output) ==
    LET old == readFile(tree, f, <<"/">>) IN
    Content((IF append /\ ~old.isNull THEN old.text ELSE <<>>) \o output \o <<"\n">>)

\* the k-th executed command returned empty output and its handler's exit
\* code, and f holds the handler's output and one newline; `always` states
\* the latter of every f, otherwise of a writable f only
RedirectApplied(k, always) ==
    LET e == executed[k] IN
    Bind(RunHandler(ResolveAlias(e.cmd.command), e.cmd, e.ctxBefore, e.fsBefore, e.stdin),
         LAMBDA h :
            LET f == ctxResolvePath(h.ctx, h.fs, e.cmd.outputRedirect.file) IN
            /\ e.output = <<>>
            /\ e.exitCode = h.exitCode
            /\ IF always \/ Writable(h.fs, f)
               THEN readFile(FsAfter(k), f, <<"/">>)
                        = Redirected(h.fs, f, e.cmd.outputRedirect.append, h.output)
               ELSE TRUE)

\* the example of the claim: echo hi > /tmp/x && cat /tmp/x
RedirectExample ==
    (pc = "done" /\ line = RedirectReadBackLine) =>
        /\ result = Result(<<"h", "i", "\n">>, 0)
        /\ readFile(fs, <<"/", "t", "m", "p", "/", "x">>, <<"/">>) = Content(<<"h", "i", "\n">>)

\* C5, for a file that can be written: a command with an output redirect
\* > f (>> f) whose handler returns a result returns empty output with the
\* handler's exit code and, when f names an entry whose parent directory
\* exists and which is not itself a directory, writes (appends) the
\* handler's output followed by exactly one newline to f.
\* echo hi > /tmp/x && cat /tmp/x returns hi\n, exit 0.
C5_RedirectWritesWhenWritable ==
    /\ \A k \in 1..Len(executed) :
        (executed[k].cmd.outputRedirect.present /\ RanHandler(executed[k].cmd))
            => RedirectApplied(k, FALSE)
    /\ RedirectExample

\* C5 as stated: every command with an output redirect writes or appends its
\* handler output and one newline to f
C5_RedirectAlwaysWrites ==
    /\ \A k \in 1..Len(executed) :
        (executed[k].cmd.outputRedirect.present /\ RanHandler(executed[k].cmd))
            => RedirectApplied(k, TRUE)
    /\ RedirectExample

\* the example has run: /tmp/x was written by echo and read back by cat
C5_Witness ==
    /\ pc = "done"
    /\ line = RedirectReadBackLine
    /\ Len(executed) = 2
    /\ executed[1].cmd.outputRedirect = Redirect(<<"/", "t", "m", "p", "/", "x">>, FALSE)
    /\ executed[1].output = <<>>
    /\ readFile(executed[1].fsBefore, <<"/", "t", "m", "p", "/", "x">>, <<"/">>).isNull
    /\ readFile(fs, <<"/", "t", "m", "p", "/", "x">>, <<"/">>) = Content(<<"h", "i", "\n">>)
    /\ result = Result(<<"h", "i", "\n">>, 0)

\* C6: echo "hello world" | wc -w returns 2 with exit code 0, echo having
\* received the quoted argument as the single token hello world
C6_QuotedPipeline ==
    (pc = "done" /\ line = QuotedPipelineLine) =>
        /\ result = Result(<<"2">>, 0)
        /\ pipeline.commands[1].args = <<<<"h", "e", "l", "l", "o", " ", "w", "o", "r", "l", "d">>>>

\* a token of the form -abc: one dash, then one or more characters
IsDashToken(token) ==
    /\ Len(token) > 1
    /\ token[1] = "-"
    /\ token[2] # "-"

\* the command segments splitPipeline cuts the line into
CommandSegments(input) ==
    SelectSeq(splitPipeline(input), LAMBDA r : r.type = "command")

\* C7: in every parsed command, every token of the form -abc that is not
\* the operand of a redirection has set each of its flags to true and is
\* not among the args
C7_ShortFlagsCoalesce ==
    pc # "idle" =>
        \A k \in 1..Len(pipeline.commands) :
            LET tokens == tokenize(CommandSegments(line)[k].value) IN
            \A j \in 2..Len(tokens) :
                (IsDashToken(tokens[j]) /\ tokens[j - 1] \notin {<<">">>, <<">", ">">>, <<"<">>}) =>
                    /\ \A n \in 2..Len(tokens[j]) :
                        FlagIsTrue(pipeline.commands[k].flags, <<tokens[j][n]>>)
                    /\ \A a \in 1..Len(pipeline.commands[k].args) :
                        pipeline.commands[k].args[a] # tokens[j]

(***************************************************************************)
(* Properties of the line editor                                           *)
(***************************************************************************)
\* C8: after any sequence of line-editor operations the cursor lies inside
\* the buffer: 0 <= cursor <= |buffer|
C8_CursorInBuffer == 0 <= cursorPos /\ cursorPos <= Len(buffer)

\* a line recalled from history has been edited at its start: the cursor
\* is at 0 in front of a non-empty buffer
C8_Witness ==
    /\ edits > 0
    /\ historyIndex # -1
    /\ buffer # <<>>
    /\ cursorPos = 0

\* C9: counted from a fresh line X with history h1..hn, the arrow keys
\* that leave the editor k entries back (1 <= k <= n) leave h(n-k+1) in the
\* buffer, up-arrows at the oldest entry change nothing, and the down-arrow
\* on the newest entry brings back X with historyIndex -1
C9_HistoryNavigation ==
    nav.on =>
        IF nav.depth = 0
        THEN buffer = nav.fresh /\ historyIndex = -1
        ELSE /\ buffer = history[Len(history) - nav.depth + 1]
             /\ historyIndex = Len(history) - nav.depth

\* a typed line came back after the arrows went up to the oldest of two
\* entries and down again
C9_Witness ==
    /\ nav.on
    /\ Len(history) = 2
    /\ nav.peak = 2
    /\ nav.depth = 0
    /\ nav.fresh # <<>>
    /\ buffer = nav.fresh
    /\ historyIndex = -1

\* the longest string every candidate starts with
LongestCommonPrefix(candidates) ==
    LET common == {n \in 0..Len(candidates[1]) :
                      \A i \in 1..Len(candidates) :
                          StartsWith(candidates[i], Slice(candidates[1], 0, n))}
    IN  Slice(candidates[1], 0, Max(0, CHOOSE n \in common : \A m \in common : m <= n))

\* the directory part of a partial token: up to its last slash
DirPart(p) ==
    LET slashes == {i \in 1..Len(p) : p[i] = "/"}
    IN  IF slashes = {} THEN <<>>
        ELSE Slice(p, 0, CHOOSE i \in slashes : \A j \in slashes : j <= i)

\* the buffer in which the token p before the cursor has become c, alone
\* or behind the directory part of p
TokenBecomes(buf, cur, p, c, new) ==
    LET head == Slice(buf, 0, cur - Len(p))
        tail == SliceFrom(buf, cur)
    IN  new \in {head \o c \o tail, head \o DirPart(p) \o c \o tail}

\* C10: Tab with partial token p before the cursor: no candidate leaves the
\* buffer as it was; one candidate c replaces p by c, with a space unless
\* c ends with a slash; two or more extend p to their longest common
\* prefix, or leave the buffer as it was and list the candidates
C10_TabCompletion ==
    last.op = "tabComplete" =>
        LET p == PartialAt(last.buffer, last.cursorPos)
            candidates == getCompletions(p, last.buffer, ctx, fs)
        IN  IF Len(candidates) = 0 THEN buffer = last.buffer
            ELSE IF Len(candidates) = 1
            THEN TokenBecomes(last.buffer, last.cursorPos, p,
                              candidates[1]
                                  \o (IF EndsWith(candidates[1], <<"/">>)
                                      THEN <<>> ELSE <<" ">>),
                              buffer)
            ELSE IF Len(LongestCommonPrefix(candidates)) > Len(p)
            THEN TokenBecomes(last.buffer, last.cursorPos, p,
                              LongestCommonPrefix(candidates), buffer)
            ELSE /\ buffer = last.buffer
                 /\ last.out = <<"\r", "\n">> \o Join(candidates, <<" ", " ">>)
                                \o <<"\r", "\n">>

(***************************************************************************)
(* Properties of the virtual file system                                   *)
(***************************************************************************)
\* C15: the line `mkdir -p a/b/c ; mkdir -p a/b/c` runs mkdir twice with exit
\* code 0, a, a/b and a/b/c are directories after the first run, and the
\* second run leaves the tree as the first left it
C15_MkdirTwice ==
    (pc = "done" /\ line = MkdirTwiceLine) =>
        /\ Len(executed) = 2
        /\ executed[1].exitCode = 0
        /\ executed[2].exitCode = 0
        /\ result.exitCode = 0
        /\ \A d \in {<<"a">>, <<"a", "/", "b">>, <<"a", "/", "b", "/", "c">>} :
               isDirectory(executed[2].fsBefore, d, ctx.cwd)
        /\ fs = executed[2].fsBefore

\* the entry a path names, a symbolic link in the last place not followed:
\* the child that writeFile, mkdir and rm look up in the resolved parent
Entry(tree, path, cwd) ==
    LET parts == resolveParts(path, cwd) IN
    IF parts = <<>> THEN NotFound
    ELSE LET parent == resolve(tree, PathString(SubSeq(parts, 1, Len(parts) - 1)), <<"/">>) IN
         IF ~parent.found THEN NotFound
         ELSE IF tree[parent.at].type # "directory" THEN NotFound
         ELSE IF Append(parent.at, parts[Len(parts)]) \in DOMAIN tree
         THEN Found(Append(parent.at, parts[Len(parts)]))
         ELSE NotFound

\* C12: whenever writeFile(p, c) returns true, readFile(p) then returns c and
\* exists(p) is true
C12_WriteThenRead ==
    (call.name = "writeFile" /\ call.ok) =>
        /\ readFile(fs, call.path, <<"/">>) = Content(call.content)
        /\ exists(fs, call.path, <<"/">>)

\* C12 for every path but the root
C12_WriteThenReadBelowRoot ==
    (call.name = "writeFile" /\ call.ok /\ resolveParts(call.path, <<"/">>) # <<>>) =>
        /\ readFile(fs, call.path, <<"/">>) = Content(call.content)
        /\ exists(fs, call.path, <<"/">>)

\* C13: every tree the calls reach is equal to the tree its snapshot gives
\* back: the same locations, and at each the same type, content, target and
\* permissions
C13_SnapshotRoundTrip == fromJSON(toJSON(fs)) = fs

\* C14: rm(p, recursive) returns false and leaves the tree as it was when p
\* resolves to the root, or when p names a directory and recursive is false;
\* whenever rm(p, true) returns true, exists(p) is false afterwards
C14_RmRefusals ==
    call.name = "rm" =>
        /\ (\/ resolve(call.before, call.path, <<"/">>) = Found(<<>>)
            \/ /\ Entry(call.before, call.path, <<"/">>).found
               /\ call.before[Entry(call.before, call.path, <<"/">>).at].type = "directory"
               /\ ~call.recursive)
            => (~call.ok /\ fs = call.before)
        /\ (call.recursive /\ call.ok) => ~exists(fs, call.path, <<"/">>)

\* C14 as it holds: the same with "the normalised path of p is the root"
\* in place of "p resolves to the root"
C14_RmRefusalsNormalised ==
    call.name = "rm" =>
        /\ (\/ resolveParts(call.path, <<"/">>) = <<>>
            \/ /\ Entry(call.before, call.path, <<"/">>).found
               /\ call.before[Entry(call.before, call.path, <<"/">>).at].type = "directory"
               /\ ~call.recursive)
            => (~call.ok /\ fs = call.before)
        /\ (call.recursive /\ call.ok) => ~exists(fs, call.path, <<"/">>)

\* rm without recursive was called on a directory and refused
C14_Witness ==
    /\ call.name = "rm"
    /\ ~call.recursive
    /\ Entry(call.before, call.path, <<"/">>).found
    /\ call.before[Entry(call.before, call.path, <<"/">>).at].type = "directory"
    /\ ~call.ok

\* a walk that counts: the outcome of following parts from the root when the
\* walk runs at nesting depth `depth`, where "deep" says that a symbolic link
\* was met whose target would have to be followed at a nesting depth above
\* the cap
RECURSIVE HopsFrom(_, _, _, _, _)
HopsFrom(tree, parts, i, current, depth) ==
    IF ~(i < Len(parts)) THEN [state |-> "found", at |-> current]
    ELSE IF tree[current].type # "directory" THEN [state |-> "null", at |-> <<>>]
    ELSE LET child == Append(current, parts[i + 1]) IN
         IF child \notin DOMAIN tree THEN [state |-> "null", at |-> <<>>]
         ELSE IF tree[child].type = "symlink" /\ TruthyString(tree[child].target)
         THEN IF depth + 1 > MaxSymlinkDepth THEN [state |-> "deep", at |-> <<>>]
              ELSE LET t == HopsFrom(tree, resolveParts(tree[child].target,
                                                        PathString(SubSeq(parts, 1, i))),
                                     0, <<>>, depth + 1)
                   IN  IF t.state # "found" THEN t
                       ELSE HopsFrom(tree, parts, i + 1, t.at, depth)
         ELSE HopsFrom(tree, parts, i + 1, child, depth)

\* resolving path needs more than MaxSymlinkDepth nested hops
NeedsMoreHops(tree, path) ==
    HopsFrom(tree, resolveParts(path, <<"/">>), 0, <<>>, 0).state = "deep"

\* C16: resolve(path) returns on every tree, one with a cycle of symbolic
\* links included, and returns null whenever following the path needs more
\* than 20 nested hops
C16_HopCap ==
    call.name = "resolve" =>
        (NeedsMoreHops(call.before, call.path) => ~call.ok)

\* resolve was called on the first link of a chain of 21 links and on a
\* link to itself, and returned null
C16_Witness ==
    /\ call.name = "resolve"
    /\ call.path = <<"/", "s", "1">>
    /\ NeedsMoreHops(call.before, call.path)
    /\ ~call.ok
    /\ NeedsMoreHops(call.before, <<"/", "c">>)
    /\ ~NeedsMoreHops(call.before, <<"/", "s", "2">>)
    /\ resolve(call.before, <<"/", "s", "2">>, <<"/">>) = Found(<<<<"f">>>>)

\* C17: when the last component of p is a symbolic link to a file, readFile(p)
\* returns the content of that file, and writeFile, appendFile and rm on p
\* change the entry of the link only: every other node, the file the link
\* points to included, is as it was
C17_LinkToFile ==
    LET link == Entry(call.before, call.path, <<"/">>)
        file == resolve(call.before, call.path, <<"/">>)
        case == /\ link.found
                /\ call.before[link.at].type = "symlink"
                /\ file.found
                /\ call.before[file.at].type = "file"
    IN  /\ (call.name = "readFile" /\ case) =>
               call.value = Content(OrEmpty(call.before[file.at].content))
        /\ (call.name \in {"writeFile", "appendFile", "rm"} /\ case) =>
               \A loc \in (DOMAIN call.before) \ {link.at} :
                   loc \in DOMAIN fs /\ fs[loc] = call.before[loc]

(***************************************************************************)
(* Properties of the line editor and the engine                            *)
(***************************************************************************)
\* the buffer and cursor after the engine was handed the characters of
\* text from the k-th on, one key at a time: handleInput calls insert for a
\* character of code 32 or above
RECURSIVE TypeKeys(_, _, _)
TypeKeys(r, text, k) ==
    IF k > Len(text) THEN r
    ELSE TypeKeys(InsertAt(r.buffer, r.cursorPos, <<text[k]>>), text, k + 1)

\* the printable characters
PrintableChars == {Ascii[n] : n \in 1..Len(Ascii)}

\* every character of text is a printable one
Printable(text) == \A k \in 1..Len(text) : text[k] \in PrintableChars

\* pasting text into the buffer at the cursor and typing it there end alike
SameAsTyped(pasted, typed) ==
    pasted.buffer = typed.buffer /\ pasted.cursorPos = typed.cursorPos

\* C11: from every buffer and cursor the editor reaches, pasting a printable
\* text in one piece with insertText ends with the buffer and the cursor
\* that typing the text key by key ends with
C11_PasteAsTyped ==
    \A text \in PasteTexts :
        Printable(text) =>
            SameAsTyped(InsertTextFrom([buffer |-> buffer, cursorPos |-> cursorPos], text, 1),
                        TypeKeys([buffer |-> buffer, cursorPos |-> cursorPos], text, 1))

\* a text was pasted into the middle of a line
C11_Witness ==
    /\ buffer = <<"/", "t", "/", "t", "m", "m">>
    /\ cursorPos = 5
    /\ edits = 2

\* the line that opens multi-line mode in this model
HeredocLine == <<"c", "a", "t", " ", "<", "<", " ", "E", " ", ">", " ", "f">>

\* C18: after a line with << TAG was submitted the engine is in multi-line
\* mode, where no submitted line starts a pipeline and every submitted line
\* other than TAG, an empty one included, is appended to the lines kept, in
\* order; the line TAG ends the mode, and the file named after > in the
\* opening line then holds the lines joined by line feeds, and a line feed
C18_Heredoc ==
    /\ heredoc.state = "open" =>
           /\ multiLineMode.on
           /\ multiLineMode.lines = heredoc.lines
           /\ ~heredoc.ran
    /\ (heredoc.state = "closed" /\ heredoc.command = HeredocLine) =>
           /\ ~multiLineMode.on
           /\ readFile(fs, <<"f">>, ctx.cwd)
                  = Content(Join(heredoc.lines, <<"\n">>) \o <<"\n">>)

\* C18 for the submitted lines that are not empty
C18_HeredocNonEmptyLines ==
    /\ heredoc.state = "open" =>
           /\ multiLineMode.on
           /\ multiLineMode.lines = FilterNonEmpty(heredoc.lines)
           /\ ~heredoc.ran
    /\ (heredoc.state = "closed" /\ heredoc.command = HeredocLine) =>
           /\ ~multiLineMode.on
           /\ readFile(fs, <<"f">>, ctx.cwd)
                  = Content(Join(FilterNonEmpty(heredoc.lines), <<"\n">>) \o <<"\n">>)

\* C19: a call of handleInput made while processing is set changes neither
\* the buffer, the history, the context, the file system, the mode nor the
\* suspended calls and emits no event; a call made while it is not set is
\* processed: a printable key is inserted and reported, and outside
\* multi-line mode a line with a command starts its pipeline
C19_DroppedWhileProcessing ==
    [][(inputs' = inputs + 1 /\ delivered'.handler = "handleInput") =>
           IF processing
           THEN UNCHANGED <<buffer, cursorPos, history, historyIndex, tempBuffer, ctx, fs,
                            events, multiLineMode, tasks, processing>>
           ELSE /\ delivered'.data = <<"z">> =>
                    /\ buffer' = InsertAt(buffer, cursorPos, <<"z">>).buffer
                    /\ events' = Append(events, Event("key", <<"z">>, NoExitCode))
                /\ (delivered'.data = <<"p", "w", "d", "\r">> /\ ~multiLineMode.on) =>
                    /\ processing'
                    /\ buffer' = <<>>
                    /\ history' = Append(history, Trim(buffer \o <<"p", "w", "d">>))]_vars

\* handleInput was called while a pipeline was in progress and processing
\* was set
C19_Witness ==
    /\ delivered.handler = "handleInput"
    /\ delivered.dropped
    /\ processing
    /\ \E i \in DOMAIN tasks : tasks[i].waiting = "execute"

\* the pipelines in progress: the tasks that await executor.execute
PipelinesInProgress == {i \in DOMAIN tasks : tasks[i].waiting = "execute"}

\* C20: at no time is more than one pipeline in progress
C20_OnePipeline == Cardinality(PipelinesInProgress) <= 1

\* the state the engine reaches from state e, where nothing is in progress,
\* when the lines from the k-th on are typed, each followed by Enter in a
\* call of handleInput of its own made after the pipeline of the line
\* before has finished
RECURSIVE TypedFrom(_, _, _)
TypedFrom(e, lines, k) ==
    IF k > Len(lines) THEN e
    ELSE TypedFrom([KeysFrom(e, lines[k] \o <<"\r">>, 1).e EXCEPT !.processing = FALSE],
                   lines, k + 1)

\* the command events among evs, in order
CommandEvents(evs) == SelectSeq(evs, LAMBDA ev : ev.type = "command")

\* a paste of several lines, made into an engine with an empty buffer and
\* nothing in progress, has run to its end
PasteDone(lines) ==
    /\ delivered.handler = "handlePaste"
    /\ Len(lines) > 1
    /\ delivered.before.tasks = 0
    /\ ~delivered.before.processing
    /\ delivered.before.buffer = <<>>
    /\ tasks = <<>>

\* C21: a paste of the lines L1..Ln into an idle engine with an empty
\* buffer emits the command events, in order, and leaves the context, the
\* file system, the multi-line mode and the history of the input buffer
\* that typing each Li and pressing Enter after it leaves
C21_PasteAsTypedLines ==
    \A lines \in {SplitLines(Filtered(delivered.data))} :
        PasteDone(lines) =>
            \E typed \in {TypedFrom(delivered.before, lines, 1)} :
                /\ CommandEvents(events) = CommandEvents(typed.events)
                /\ ctx = typed.ctx
                /\ fs = typed.fs
                /\ multiLineMode = typed.mode
                /\ history = typed.history

\* C21 without the history of the input buffer
C21_PasteAsTypedLinesButHistory ==
    \A lines \in {SplitLines(Filtered(delivered.data))} :
        PasteDone(lines) =>
            \E typed \in {TypedFrom(delivered.before, lines, 1)} :
                /\ CommandEvents(events) = CommandEvents(typed.events)
                /\ ctx = typed.ctx
                /\ fs = typed.fs
                /\ multiLineMode = typed.mode

\* the data of this model that are an escape sequence handleInput does not
\* test for: ESC [ 5 ~ (Page Up) and ESC x (Alt-x)
UnrecognisedSequences == {<<Esc, "[", "5", "~">>, <<Esc, "x">>, <<"g", "r", "e", "p", " ", "(", " ", "R", "E", "A", "D", "M", "E", ".", "m", "d", "\r">>}

RaisingLine == <<"g", "r", "e", "p", " ", "(", " ", "R", "E", "A", "D", "M", "E", ".", "m", "d">>

\* the output event of a handler that threw
InternalErrorEvent == Event("output", <<"g", "r", "e", "p", ":", " ", "i", "n", "t", "e", "r", "n", "a", "l", " ", "e", "r", "r", "o", "r">>, 1)

\* C23: when the handler of a command throws, executeCommand returns the
\* output `<cmd>: internal error` with exit code 1 instead of throwing; the
\* engine reports it in an output event and clears processing, and the
\* next call of handleInput is processed, not dropped
C23_HandlerRaises ==
    /\ \A cmd \in {parse(RaisingLine).commands[1]} :
           HasRaised(RunHandler(cmd.command, cmd, ctx, fs, NoStdin)) =>
               executeCommand(cmd, ctx, fs, NoStdin)
                   = Outcome(<<"g", "r", "e", "p", ":", " ", "i", "n", "t", "e", "r", "n", "a", "l", " ", "e", "r", "r", "o", "r">>, 1, ctx, fs)
    /\ \A i \in DOMAIN events :
           (events[i] = Event("command", RaisingLine, NoExitCode)
            /\ \A t \in DOMAIN tasks : tasks[t].waiting # "execute")
               => \E j \in DOMAIN events : j > i /\ events[j] = InternalErrorEvent
    /\ (events # <<>> /\ events[Len(events)] = InternalErrorEvent) => ~processing
    /\ (/\ delivered.handler = "handleInput"
        /\ delivered.before.events # <<>>
        /\ delivered.before.events[Len(delivered.before.events)] = InternalErrorEvent)
           => ~delivered.dropped

\* the handler of grep has thrown, the engine has reported the internal
\* error, and a key typed afterwards was inserted
C23_Witness ==
    /\ HasRaised(RunHandler(<<"g", "r", "e", "p">>, parse(RaisingLine).commands[1], ctx, fs, NoStdin))
    /\ delivered.handler = "handleInput"
    /\ delivered.data = <<"z">>
    /\ delivered.before.events # <<>>
    /\ delivered.before.events[Len(delivered.before.events)] = InternalErrorEvent
    /\ buffer = <<"z">>
    /\ ~processing

\* the lines of one command that the data of this model submit
CommandLines == {<<"p", "w", "d">>, RaisingLine}

\* the line l was typed and submitted in one call of handleInput, made
\* outside multi-line mode on an empty buffer with nothing in progress,
\* and what it started has finished
LineDone(l) ==
    /\ delivered.handler = "handleInput"
    /\ delivered.data = l \o <<"\r">>
    /\ ~delivered.dropped
    /\ delivered.before.tasks = 0
    /\ delivered.before.buffer = <<>>
    /\ ~delivered.before.mode.on
    /\ tasks = <<>>

\* C24: a command line the engine executes adds exactly one command event
\* to the events, and this event carries the exit code the pipeline of the
\* line returned
C24_CommandEventExitCode ==
    \A l \in CommandLines :
        LineDone(l) =>
            CommandEvents(events)
                = Append(CommandEvents(delivered.before.events),
                         Event("command", l,
                               ExecuteStarted(l, delivered.before.ctx,
                                              delivered.before.fs).exitCode))

\* C24 without the exit code: the one command event carries none
C24_OneCommandEvent ==
    \A l \in CommandLines :
        LineDone(l) =>
            CommandEvents(events)
                = Append(CommandEvents(delivered.before.events),
                         Event("command", l, NoExitCode))

\* the characters of the key events among evs from the k-th on, in order
RECURSIVE KeyData(_, _)
KeyData(evs, k) ==
    IF k > Len(evs) THEN <<>>
    ELSE (IF evs[k].type = "key" THEN evs[k].data ELSE <<>>) \o KeyData(evs, k + 1)

\* what the key events between the last command event before the i-th
\* event and the i-th event typed
KeysBefore(i) ==
    Bind({j \in 1..(i - 1) : events[j].type = "command"}, LAMBDA earlier :
        KeyData(SubSeq(events, 1, i - 1),
                IF earlier = {} THEN 1
                ELSE (CHOOSE j \in earlier : \A o \in earlier : o <= j) + 1))

\* every output event comes after a command event
OutputAfterCommand ==
    \A i \in DOMAIN events :
        events[i].type = "output" =>
            \E j \in 1..(i - 1) : events[j].type = "command"

\* C25: every command event is preceded, since the submission before it,
\* by key events that give the raw text of its command (the editing and
\* control keys of this model, Enter and the arrow up, emit no key event;
\* the keys counted are the last ones typed since the command event
\* before), whether the line was typed, recalled from the history or
\* pasted; and every output event comes after the command event of its
\* command
C25_KeysBeforeCommand ==
    /\ \A i \in DOMAIN events :
           events[i].type = "command" =>
               \E keys \in {KeysBefore(i)} : \E k \in 1..(Len(keys) + 1) :
                   Trim(SubSeq(keys, k, Len(keys))) = events[i].data
    /\ OutputAfterCommand

(***************************************************************************)
(* Properties of the keystroke recorder                                    *)
(***************************************************************************)
\* how many of the most recent gaps between the timestamps of the window
\* are all at most the threshold
RapidGaps(window) ==
    CHOOSE k \in 0..(Len(window) - 1) :
        /\ \A j \in (Len(window) - k + 1)..Len(window) :
               window[j] - window[j - 1] <= BURST_THRESHOLD
        /\ k < Len(window) - 1 =>
               window[Len(window) - k] - window[Len(window) - k - 1] > BURST_THRESHOLD

\* a key was recorded
KeyRecorded == lastCall = "recordKey" /\ burst.window # <<>>

\* the last event recorded is the paste event of a burst
BurstRecorded ==
    /\ recorderEvents # <<>>
    /\ recorderEvents[Len(recorderEvents)].type = "paste"
    /\ recorderEvents[Len(recorderEvents)].detectedBy = "burst"

\* C26 as stated: recordKey adds a burst paste event exactly when the
\* window, after the timestamp was appended and the old entries dropped,
\* holds at least 30 timestamps and its most recent k >= 30 gaps are all at
\* most 50 ms; the count reported is k and the window is empty afterwards
C26_BurstOfGaps ==
    KeyRecorded =>
        /\ BurstRecorded <=> (/\ Len(burst.window) >= BURST_MIN_CHARS
                              /\ RapidGaps(burst.window) >= BURST_MIN_CHARS)
        /\ BurstRecorded => /\ burst.count = RapidGaps(burst.window)
                            /\ timestamps = <<>>

\* C26, amended: recordKey adds a burst paste event exactly when the most
\* recent k >= 30 timestamps of the window, the new one included, lie at
\* most 50 ms from one to the next (k - 1 gaps); the count reported, in
\* the event's content too, is k and the window is empty afterwards
C26_BurstOfKeys ==
    KeyRecorded =>
        /\ BurstRecorded <=> RapidGaps(burst.window) + 1 >= BURST_MIN_CHARS
        /\ BurstRecorded <=> burst.detected
        /\ BurstRecorded =>
               /\ burst.count = RapidGaps(burst.window) + 1
               /\ recorderEvents[Len(recorderEvents)].content
                      = <<"[", "b", "u", "r", "s", "t", " ", "d", "e", "t", "e", "c", "t", "e", "d", ":", " ">> \o NatToString(RapidGaps(burst.window) + 1)
                            \o <<" ", "c", "h", "a", "r", "s", " ", "i", "n", " ">>
                            \o NatToString(now - burst.window[Len(burst.window)
                                                              - RapidGaps(burst.window)])
                            \o <<"m", "s", "]">>
               /\ timestamps = <<>>

\* a burst was found in a window that holds a key from before a pause
C26_Witness ==
    /\ KeyRecorded
    /\ BurstRecorded
    /\ Len(burst.window) > BURST_MIN_CHARS
    /\ burst.count = BURST_MIN_CHARS

\* C27: after stop() has returned no event is pending, every one having
\* been handed to the sink, and no interval is left that would fire a
\* periodic flush, whatever calls of start, recordKey, flush and stop were
\* made before
C27_StoppedForGood ==
    lastCall = "stop" =>
        /\ recorderEvents = <<>>
        /\ intervals = {}

\* C27 for the pending events alone; the intervals left are those of the
\* calls of start() that another call of start() followed
C27_Drained ==
    lastCall = "stop" =>
        /\ recorderEvents = <<>>
        /\ flushInterval = NoInterval
        /\ handles <= 1 => intervals = {}

(***************************************************************************)
(* Properties of the session replay                                        *)
(***************************************************************************)
\* play() was called
Played == stateChanges # <<>>

\* how many times the event was handed to onEvent
TimesReplayed(e) == Cardinality({k \in 1..Len(replayed) : replayed[k] = e})

\* what was handed to onEvent came with timestamps that never decrease
InTimestampOrder ==
    \A j, k \in 1..Len(replayed) :
        j < k => replayed[j].timestamp <= replayed[k].timestamp

\* the replay has stopped at the end of the log
PlayedOut == ~isPlaying /\ currentIndex = Len(replayEvents)

\* C28: after play() on a new replay, with no other call made, the events
\* handed to onEvent come in non-decreasing timestamp order and none comes
\* twice, and eventually every event of the log was handed over exactly once,
\* isPlaying is false and currentIndex is the length of the log
C28_PlayedToTheEnd ==
    /\ [](InTimestampOrder
            /\ \A j \in 1..Len(replayEvents) : TimesReplayed(replayEvents[j]) <= 1)
    /\ Played ~> (PlayedOut
                    /\ \A j \in 1..Len(replayEvents) : TimesReplayed(replayEvents[j]) = 1)

\* a log that was given out of order was played to its end
C28_Witness ==
    /\ Played /\ PlayedOut
    /\ Len(replayed) >= 2
    /\ replayed[1].id # 1
    /\ replayed = replayEvents

\* p = q
SameNumber(p, q) == p.num * q.den = q.num * p.den

\* Math.max(p, q)
MathMax(p, q) == IF Below(p, q) THEN q ELSE p

\* the time from the event a timeout was set after to the next one
GapAfter(t) == replayEvents[t.after + 2].timestamp - replayEvents[t.after + 1].timestamp

\* C29: a timeout set after event i was delivered, at a time when the speed is
\* s, has the delay min(max(0, (t(i+1) - t(i)) / s), 2000 / s); at speed 8
\* that is min(gap / 8, 250)
C29_DelayScheduled ==
    \A t \in timeouts :
        /\ SameNumber(t.delay,
                      MathMin(MathMax(Quotient(0, 1), Quotient(GapAfter(t), t.speed)),
                              Quotient(2000, t.speed)))
        /\ t.speed = 8 =>
               SameNumber(t.delay, MathMin(Quotient(GapAfter(t), 8), Quotient(250, 1)))

\* at speed 8 a timeout of 250 ms stands for a gap of 19900 ms
C29_Witness ==
    /\ speed = 8
    /\ \E t \in timeouts :
        /\ t.handle = timer
        /\ t.speed = 8
        /\ GapAfter(t) = 19900
        /\ t.delay = Quotient(2000, 8)

\* the index of the first event at or after the time, or of the last event
\* when there is none
FirstAtOrAfter(time) ==
    IF \E j \in 1..Len(replayEvents) : replayEvents[j].timestamp >= time
    THEN (CHOOSE j \in 1..Len(replayEvents) :
              /\ replayEvents[j].timestamp >= time
              /\ \A k \in 1..(j - 1) : replayEvents[k].timestamp < time) - 1
    ELSE Len(replayEvents) - 1

\* the last call was seekToTime with a time beyond the last event
SoughtBeyondTheEnd ==
    /\ seek.name = "seekToTime"
    /\ replayEvents # <<>>
    /\ replayEvents[1].timestamp + seek.arg > replayEvents[Len(replayEvents)].timestamp

\* C30: on a log that is not empty, seekTo(i) leaves currentIndex at i clamped
\* into 0 .. length - 1, seekToTime(ms) leaves it at the first event whose
\* timestamp is at or after that of the first event plus ms, or at the last
\* event when ms lies beyond the end of the log, and each calls onStateChange
C30_SeekClamps ==
    replayEvents # <<>> =>
        /\ seek.name = "seekTo" =>
            /\ seek.after = (IF seek.arg < 0 THEN 0
                             ELSE IF seek.arg > Len(replayEvents) - 1
                                  THEN Len(replayEvents) - 1
                                  ELSE seek.arg)
            /\ seek.notified = 1
        /\ seek.name = "seekToTime" =>
            /\ seek.after = FirstAtOrAfter(replayEvents[1].timestamp + seek.arg)
            /\ seek.notified = 1

\* what holds of seekToTime: within the log it finds the first event at or
\* after the time, beyond the end it leaves currentIndex as it was
C30_SeekToTimeBeyondTheEnd ==
    replayEvents # <<>> /\ seek.name = "seekToTime" =>
        /\ seek.after = (IF SoughtBeyondTheEnd THEN seek.before
                         ELSE FirstAtOrAfter(replayEvents[1].timestamp + seek.arg))
        /\ seek.notified = 1

(***************************************************************************)
(* Properties of the integrity scorer                                      *)
(***************************************************************************)
\* the types of the flags whose trigger holds for the report's paste count
\* and patterns
Triggered(r) ==
    {t \in {<<"e", "x", "c", "e", "s", "s", "i", "v", "e", "_", "p", "a", "s", "t", "e">>, <<"m", "o", "d", "e", "r", "a", "t", "e", "_", "p", "a", "s", "t", "e">>, <<"s", "p", "e", "e", "d", "_", "a", "n", "o", "m", "a", "l", "y">>, <<"p", "e", "r", "f", "e", "c", "t", "_", "c", "o", "d", "e">>,
            <<"i", "d", "l", "e", "_", "b", "u", "r", "s", "t">>, <<"f", "r", "e", "q", "u", "e", "n", "t", "_", "t", "a", "b", "_", "a", "w", "a", "y">>} :
        \/ t = <<"e", "x", "c", "e", "s", "s", "i", "v", "e", "_", "p", "a", "s", "t", "e">> /\ r.pasteCount > 5
        \/ t = <<"m", "o", "d", "e", "r", "a", "t", "e", "_", "p", "a", "s", "t", "e">> /\ 2 < r.pasteCount /\ r.pasteCount <= 5
        \/ t = <<"s", "p", "e", "e", "d", "_", "a", "n", "o", "m", "a", "l", "y">> /\ r.patterns.sustainedHighSpeedSegments > 0
        \/ t = <<"p", "e", "r", "f", "e", "c", "t", "_", "c", "o", "d", "e">> /\ r.patterns.perfectCodeSegments > 2
        \/ t = <<"i", "d", "l", "e", "_", "b", "u", "r", "s", "t">> /\ r.patterns.idleBurstCount > 3
        \/ t = <<"f", "r", "e", "q", "u", "e", "n", "t", "_", "t", "a", "b", "_", "a", "w", "a", "y">> /\ r.patterns.tabAwayCount > 10}

\* what a flag of the type costs: high 30, medium 15, low 5
Cost(t) ==
    IF t = <<"e", "x", "c", "e", "s", "s", "i", "v", "e", "_", "p", "a", "s", "t", "e">> THEN 30
    ELSE IF t \in {<<"i", "d", "l", "e", "_", "b", "u", "r", "s", "t">>, <<"f", "r", "e", "q", "u", "e", "n", "t", "_", "t", "a", "b", "_", "a", "w", "a", "y">>} THEN 5
    ELSE 15

\* the sum of the costs of the types
RECURSIVE TotalCost(_)
TotalCost(types) ==
    IF types = {} THEN 0
    ELSE Bind(CHOOSE t \in types : TRUE, LAMBDA t : Cost(t) + TotalCost(types \ {t}))

\* C31: the score of a report is 100 minus the deductions (high 30, medium
\* 15, low 5) of exactly the flags whose trigger holds, each raised once, and
\* lies between 0 and 100
C31_ScoreOfFlags ==
    \A k \in 1..Len(reports) :
        /\ {reports[k].flags[j].type : j \in 1..Len(reports[k].flags)} = Triggered(reports[k])
        /\ Len(reports[k].flags) = Cardinality(Triggered(reports[k]))
        /\ \A j \in 1..Len(reports[k].flags) :
               reports[k].flags[j].deduction = Cost(reports[k].flags[j].type)
        /\ reports[k].score = 100 - TotalCost(Triggered(reports[k]))
        /\ reports[k].score \in 0..100

\* a report with every flag but moderate_paste: 100 - 30 - 15 - 15 - 5 - 5
C31_Witness ==
    \E k \in 1..Len(reports) :
        /\ reports[k].score = 30
        /\ Len(reports[k].flags) = 5
        /\ reports[k].pasteCount > 5


(***************************************************************************)
(* Properties of the git and docker commands                               *)
(***************************************************************************)
\* a git or docker command was run by an engine
ToolRan == toolRun.engine \in Engines

\* C32: git and docker commands executed in one engine never change what
\* git and docker commands executed in another engine of the same process
\* observe: what a command of an engine returns is what it returns when only
\* the commands of this engine were run before it.
C32_StatePerEngine == ToolRan => toolRun.result = toolRun.alone

\* the other engine switched the branch, and this engine's git branch shows it
C32_OtherEngineObserved ==
    /\ ToolRan
    /\ toolRun.line = <<"g", "i", "t", " ", "b", "r", "a", "n", "c", "h">>
    /\ alone[toolRun.engine].git = InitialGitState
    /\ toolRun.result # toolRun.alone

(***************************************************************************)
(* Properties of the parser                                                *)
(***************************************************************************)
\* the texts that stand before, between and after the operators of a list of
\* segments, the empty text where two operators meet or the list begins or
\* ends with one; `open` says that the text before the next operator was
\* not seen yet
RECURSIVE TextsAround(_, _)
TextsAround(segments, open) ==
    IF segments = <<>> THEN IF open THEN <<<<>>>> ELSE <<>>
    ELSE IF Head(segments).type = "operator"
    THEN (IF open THEN <<<<>>>> ELSE <<>>) \o TextsAround(Tail(segments), TRUE)
    ELSE <<Head(segments).value>> \o TextsAround(Tail(segments), FALSE)

\* parse was called on a line that holds a command or an operator
ParsedPipeline == parsed.called /\ splitPipeline(parseInput) # <<>>

\* C33: operator i of the pipeline parse returns is the operator that stood
\* between command i and command i + 1 of the line, so there is one operator
\* less than there are commands; where the line begins or ends with an
\* operator or two operators meet, the command of that place is the empty
\* command.
C33_OperatorsPositional ==
    ParsedPipeline =>
        /\ Len(parsed.operators) = Len(parsed.commands) - 1
        /\ parsed.commands =
               Bind(TextsAround(splitPipeline(parseInput), TRUE), LAMBDA texts :
                   [k \in 1..Len(texts) |-> parseCommand(texts[k])])

\* a line that ends with an operator was parsed into as many operators as
\* commands
C33_TrailingOperator ==
    /\ ParsedPipeline
    /\ parseInput = <<"a", ";">>
    /\ Len(parsed.operators) = Len(parsed.commands)

(***************************************************************************)
(* Properties of the exit code of the context                              *)
(***************************************************************************)
\* C34: after each command of a line was executed (by a registered handler,
\* as an unknown command, as an assignment, or by a handler that raised) the
\* exit code of the context is the exit code of that command, which is the
\* value the next operator is evaluated on.
C34_ContextExitCode ==
    \A k \in 1..Len(executed) :
        executed[k].cmd.command # <<>> =>
            executed[k].ctxExitCode = executed[k].exitCode

\* an unknown command returned 127 and the context kept the exit code 0
C34_UnknownCommandKeepsExitCode ==
    \E k \in 1..Len(executed) :
        /\ executed[k].cmd.command = <<"n", "o", "s", "u", "c", "h">>
        /\ executed[k].exitCode = 127
        /\ executed[k].ctxExitCode = 0

\* the locals of tokenize before it reads character k of the input
RECURSIVE TokenizerBefore(_, _)
TokenizerBefore(input, k) ==
    IF k = 1 THEN ScanStart ELSE TokenizeStep(input, TokenizerBefore(input, k - 1))

\* the places of the input at which splitPipeline, going on from st, pushes
\* an operator
RECURSIVE CutsFrom(_, _)
CutsFrom(input, st) ==
    IF st.k > Len(input) THEN {}
    ELSE Bind(SplitPipelineStep(input, st), LAMBDA after :
             (IF after.results # st.results THEN {st.k} ELSE {})
                 \cup CutsFrom(input, after))

Cuts(input) == CutsFrom(input, ScanStart)

\* the places where |, ||, && or ; begins in the input, the second character
\* of a || or && that was cut not being one
OperatorPlaces(input) ==
    {k \in 1..Len(input) :
        /\ \/ input[k] \in {"|", ";"}
           \/ input[k] = "&" /\ k < Len(input) /\ input[k + 1] = "&"
        /\ ~(k - 1 \in Cuts(input) /\ input[k - 1] = input[k]
                /\ input[k] \in {"|", "&"})}

\* outside single and double quotes and not escaped by a backslash
Unquoted(st) == ~st.inSingleQuote /\ ~st.inDoubleQuote /\ ~st.escaped

\* C35: the splitter of pipelines and the tokenizer agree on what is quoted
\* or escaped: a |, ||, && or ; of the input splits the line iff the state
\* of the tokenizer at that place is outside single and double quotes and
\* not escaped by a backslash; a backslash between single quotes is a
\* literal character for both.
C35_SplitterAgreesWithTokenizer ==
    parsed.called =>
        \A k \in OperatorPlaces(parseInput) :
            k \in Cuts(parseInput) <=> Unquoted(TokenizerBefore(parseInput, k))

\* after a backslash between single quotes the tokenizer has left the quotes
\* at the closing quote and the splitter has not
C35_BackslashInSingleQuotes ==
    /\ parsed.called
    /\ parseInput = <<"'", "\\", "'", "|">>
    /\ Unquoted(TokenizerBefore(parseInput, 4))
    /\ 4 \notin Cuts(parseInput)

(***************************************************************************)
(* Properties of symbolic links with relative targets                      *)
(***************************************************************************)
\* the walk in which the target of a symbolic link is resolved relative to
\* the directory node that holds the link, `current`, whatever path led to it
RECURSIVE WalkInPlace(_, _, _)
RECURSIVE WalkInPlaceFrom(_, _, _, _, _)
WalkInPlaceFrom(tree, parts, i, current, depth) ==
    IF ~(i < Len(parts)) THEN Found(current)
    ELSE IF tree[current].type # "directory" THEN NotFound
    ELSE Bind(Append(current, parts[i + 1]), LAMBDA child :
         IF child \notin DOMAIN tree THEN NotFound
         ELSE IF tree[child].type = "symlink" /\ TruthyString(tree[child].target)
         THEN Bind(WalkInPlace(tree, resolveParts(tree[child].target, PathString(current)),
                               depth + 1),
                   LAMBDA targetNode :
                  IF ~targetNode.found THEN NotFound
                  ELSE WalkInPlaceFrom(tree, parts, i + 1, targetNode.at, depth))
         ELSE WalkInPlaceFrom(tree, parts, i + 1, child, depth))

WalkInPlace(tree, parts, depth) ==
    IF depth > MaxSymlinkDepth THEN NotFound
    ELSE WalkInPlaceFrom(tree, parts, 0, <<>>, depth)

\* resolve or readFile was called
Resolved == call.name \in {"resolve", "readFile"}

\* C36: where resolve meets a symbolic link with a relative target, the
\* target is resolved relative to the directory node that holds the link,
\* also when that directory was reached through another symbolic link: the
\* node resolve reaches is the one the walk in place reaches, and readFile
\* returns the content of that node.
C36_RelativeToContainingDirectory ==
    Resolved =>
        /\ resolve(call.before, call.path, <<"/">>)
               = WalkInPlace(call.before, resolveParts(call.path, <<"/">>), 0)
        /\ call.name = "readFile" =>
               Bind(WalkInPlace(call.before, resolveParts(call.path, <<"/">>), 0),
                    LAMBDA node :
                       /\ call.ok = (node.found /\ call.before[node.at].type = "file")
                       /\ call.ok =>
                              call.value.text = OrEmpty(call.before[node.at].content))

\* the link to ../f in /x/y, read through the link /a to /x/y, gave the
\* file /f and not the file /x/f
C36_ThroughAnotherLink ==
    /\ call.name = "readFile"
    /\ call.before = NestedTree
    /\ call.path = <<"/", "a", "/", "l">>
    /\ call.value = Content(<<"x">>)
    /\ WalkInPlace(call.before, resolveParts(call.path, <<"/">>), 0) = Found(<<<<"x">>, <<"f">>>>)

(***************************************************************************)
(* Properties of the report as a function of the log                       *)
(***************************************************************************)
\* the paste events of the log, from the clipboard and from bursts
PastesLogged == CountOf(scoredEvents, LAMBDA e : e.type = "paste")

\* C37: the report is determined by the log of events alone: two calls of
\* generateReport on the same log return the same score, flags and paste
\* count whatever else differs, and the paste count is the number of paste
\* events of the log.
C37_ReportOfTheLogAlone ==
    \A i \in 1..Len(reports) :
        /\ reports[i].pasteCount = PastesLogged
        /\ \A j \in 1..Len(reports) :
               /\ reports[i].score = reports[j].score
               /\ reports[i].flags = reports[j].flags
               /\ reports[i].pasteCount = reports[j].pasteCount

\* two reports on the same log, the detector having recorded a paste in
\* between: the paste counts and the scores differ
C37_SameLogOtherReport ==
    /\ Len(reports) = 2
    /\ reports[1].pasteCount # reports[2].pasteCount
    /\ reports[1].score # reports[2].score

(***************************************************************************)
(* Properties of the challenge                                             *)
(***************************************************************************)
\* a challenge command was run
ChallengeRan == challengeCmd.line # <<>>

\* the level is not the one before the last command
LevelChanged == ChallengeRan /\ challenge.currentLevel # challengeCmd.before.currentLevel

\* C38: over any sequence of commands the current level of the challenge
\* changes only through next-level, only by one upwards, only when every
\* objective of the level that applies to the seniority of the session is
\* completed, and it stays within 1..4.
C38_LevelAdvances ==
    /\ challenge.currentLevel \in 1..4
    /\ LevelChanged =>
           /\ challengeCmd.line = <<"n", "e", "x", "t", "-", "l", "e", "v", "e", "l">>
           /\ challenge.currentLevel = challengeCmd.before.currentLevel + 1
           /\ \A o \in {LEVELS[challengeCmd.before.currentLevel].objectives[k] :
                           k \in 1..Len(LEVELS[challengeCmd.before.currentLevel].objectives)} :
                  seniorityLevel(o.seniorityMin)
                          <= seniorityLevel(challengeCmd.before.seniority)
                      => ArrayIncludes(challengeCmd.before.completedObjectives, o.id)

\* next-level took a senior session, all objectives of level 3 that apply
\* to it completed, to level 4
C38_Witness ==
    /\ LevelChanged
    /\ challengeCmd.line = <<"n", "e", "x", "t", "-", "l", "e", "v", "e", "l">>
    /\ challengeCmd.before.seniority = "senior"
    /\ challengeCmd.before.currentLevel = 3
    /\ challenge.currentLevel = 4

(***************************************************************************)
(* Properties of the timer of the replay                                   *)
(***************************************************************************)
\* C39: in every state of the replay, whatever the order of play, pause,
\* setSpeed, seekTo and the expiries of the timer, at most one timeout is
\* pending, and none is pending while isPlaying is false.
C39_OneTimer ==
    /\ Cardinality(timeouts) <= 1
    /\ ~isPlaying => timeouts = {}

\* two timeouts are pending, the field timer holding the later one
C39_TwoTimers ==
    /\ isPlaying
    /\ Cardinality(timeouts) = 2
    /\ \E t \in timeouts : t.handle # timer

\* a timeout is pending on a replay that is not playing
C39_TimerWhileStopped == ~isPlaying /\ timeouts # {}

(***************************************************************************)
(* Properties of the batches of the recorder                               *)
(***************************************************************************)
\* the batches handed to onFlush, one after the other
RECURSIVE Concatenated(_)
Concatenated(batches) ==
    IF batches = <<>> THEN <<>> ELSE Head(batches) \o Concatenated(Tail(batches))

\* how many events were recorded: one for each call of recordKey
RecordedSoFar == MaxRecorded - keysLeft

\* C40: with a sink installed, every event the recorder recorded is handed
\* to the sink exactly once over the flushes of the interval, the calls of
\* flush and stop(): the batches handed over, one after the other and
\* followed by the events still pending, are the events recorded, each once
\* and in the order of recording (the timestamps of the model grow from one
\* event to the next); after a flush or stop() nothing is pending; and no
\* batch is empty.
C40_EachEventOnce ==
    /\ \A b \in 1..Len(flushed) : flushed[b] # <<>>
    /\ Bind(Concatenated(flushed) \o recorderEvents, LAMBDA all :
           /\ Len(all) = RecordedSoFar
           /\ \A j, k \in 1..Len(all) : j < k => all[j].timestamp < all[k].timestamp)
    /\ lastCall \in {"stop", "flush", "interval"} =>
           /\ recorderEvents = <<>>
           /\ Len(Concatenated(flushed)) = RecordedSoFar

\* two keys were recorded and handed over in two batches, the second by
\* stop()
C40_Witness ==
    /\ lastCall = "stop"
    /\ RecordedSoFar = 2
    /\ Len(flushed) = 2
    /\ Len(flushed[1]) = 1
    /\ Len(flushed[2]) = 1
=============================================================================
